---- MODULE Spec2Model ----
(***************************************************************************)
(* Model of the admin control plane handlers (cmd/admin-handlers.go):      *)
(* SetConfigHandler's stage / lock / commit / restart protocol over the    *)
(* admin peers and the heal handlers.  Go slices are modelled as           *)
(* sequences: peer index i of the code is index i+1 here.                  *)
(***************************************************************************)
EXTENDS Integers, Sequences, FiniteSets, TLC

\* ------------------------------------------------------------------ bounds
\* Largest peer count of a run with a single set-config request.
MaxPeers == 5
\* Largest peer count of a run with concurrent set-config requests.
MaxConcPeers == 3
\* Number of set-config requests of a concurrent run.
MaxReqs == 2
\* Number of distinct configuration documents a request may submit.
MaxDocs == 2

Reqs == 1..MaxReqs
PeerIds == 1..(IF MaxPeers > MaxConcPeers THEN MaxPeers ELSE MaxConcPeers)
ConfigDocs == 1..MaxDocs
\* The configuration every peer holds at start-up.
InitialDoc == 0
\* Temporary file names: one fresh uuid per request.
TmpNames == 1..MaxReqs
\* globalMinioConfigFile: the name of the canonical configuration file.
ConfigFile == 0
FileNames == TmpNames \cup {ConfigFile}

\* Go's nil error, and the errors a peer call can return.
Nil == "<nil>"
errTimeout == "errTimeout"
errFileNotFound == "errFileNotFound"
\* A file that does not exist on a peer.
NoFile == -1
\* The free state of the lock on minio/config.json.
NoHolder == 0
NoResp == [kind |-> "none"]
\* A nil object layer: the server is not initialised.
NilObjectAPI == 0
\* Number of heal requests of a run.
MaxHealReqs == 2
HReqs == 1..MaxHealReqs
\* Object layer instances: the one serving at start-up and one per format heal.
EngineIds == 1..(MaxHealReqs + 1)
\* Bucket and object names a request may carry; the empty name is invalid.
BucketNames == {"", "b1"}
ObjectNames == {"", "o1"}
\* The query keys a heal request may carry.
mgmtDryRun == "dry-run"

\* Number of service-status / server-info requests of a run.
MaxStatusReqs == 2
SReqs == 1..MaxStatusReqs
\* Number of set-credentials requests of a run.
MaxCredsReqs == 2
CReqs == 1..MaxCredsReqs
\* Access and secret keys a set-credentials request may carry; the short ones
\* fail validateAuthKeys.
Usernames == {"adm", "admin1"}
Passwords == {"secret", "password1"}
\* Number of service-restart requests of a run.
MaxRestartReqs == 2
RReqs == 1..MaxRestartReqs
\* Number of list-locks / clear-locks / list-objects-heal requests of a run.
MaxLockReqs == 2
LReqs == 1..MaxLockReqs
\* Number of peers of a run with lock requests.
MaxLockPeers == 2
\* Number of lock acquisitions of a run.
MaxLockIDs == 2
\* Number of clock ticks of a run.
MaxTime == 1
\* The resources the lock manager serves: objects of bucket b1, as sequences
\* of characters.
LockResources == <<[bucket |-> "b1", object |-> <<"a">>],
                   [bucket |-> "b1", object |-> <<"a", "b">>]>>
\* The prefix, duration and max-key query values a request may carry.
Prefixes == {<<>>, <<"a", "b">>, <<"/", "/">>}
DurationStrs == {"", "1s", "x"}
MaxKeyStrs == {"", "10", "-1"}
\* A resource nobody holds.
NoLock == [id |-> 0]
\* The credential loaded at start-up.
InitialCred == [AccessKey |-> "minio", SecretKey |-> "minio123"]

VARIABLES
    n,               \* len(globalAdminPeers)
    globalObjectAPI, \* the current object layer (NilObjectAPI: not initialised)
    files,           \* files[p][name]: peer p's configuration files, canonical and temporary
    configLock,      \* holder of the namespace lock on minio/config.json
    nextUUID,        \* mustGetUUID: the next fresh identifier
    active,          \* the requests that arrive in this run
    pc,              \* pc[r]: position of request r in SetConfigHandler
    configBytes,     \* configBytes[r]: the request body
    tmpFileName,     \* tmpFileName[r]
    errs,            \* errs[r]: the handler's local errs slice
    pending,         \* pending[r]: peers whose call of the current fan-out has not returned
    resp,            \* resp[r]: the response written to the client
    calls,           \* calls[r]: number of peer calls issued, per kind and peer (history)
    stagedAt,        \* stagedAt[r]: peers that wrote r's temporary file (history)
    committedAt,     \* committedAt[r]: peers that promoted r's temporary file (history)
    lastLock,        \* the request that acquired the config lock most recently (history)
    restartPending,  \* peers that received the restart command and have not restarted yet
    restarts,        \* restarts[p]: number of restarts peer p completed
    rpc,             \* rpc[x]: position of restart request x in ServiceRestartHandler
    rresp,           \* rresp[x]: the response written to the client
    rcalls,          \* rcalls[x]: number of restart commands request x dispatched (history)
    globalIsXL,      \* the erasure-coded backend is in use
    globalObjLayerMutex, \* holder of the write lock on globalObjectAPI
    nextEngine,      \* the next object layer instance newXLObjects constructs
    shutdowns,       \* shutdowns[e]: number of Shutdown() calls on instance e
    bucketState,     \* bucketState[b]: "missing", "damaged" or "ok" on the disks
    objectState,     \* objectState[o]: "missing", "damaged" or "ok" in bucket b1
    formatState,     \* format.json on the disks: "damaged" or "ok"
    storageInits,    \* number of initStorageDisks calls
    peerReinits,     \* number of reInitPeerDisks broadcasts
    hpc,             \* hpc[h]: position of heal request h in its handler
    hkind,           \* hkind[h]: "bucket", "object" or "format"
    hvars,           \* hvars[h]: the query keys present in the request URL
    hbucket,         \* hbucket[h], hobject[h]: the bucket and object query values
    hobject,
    hobjLayer,       \* hobjLayer[h]: the handler's local objLayer / objectAPI
    hnewAPI,         \* hnewAPI[h]: the handler's local newObjectAPI
    hresp,           \* hresp[h]: the response written to the client
    hcalls,          \* hcalls[h]: the operations request h invoked, in order (history)
    hprev,           \* hprev[h]: globalObjectAPI immediately before h's assignment (history)
    spc,             \* spc[s]: position of status request s in its handler
    skind,           \* skind[s]: "status" (ServiceStatusHandler) or "info" (ServerInfoHandler)
    uptimeErrs,      \* uptimeErrs[s]: per-peer errors of the uptime read (<<>> before it)
    sresp,           \* sresp[s]: the response written to the client
    globalIsEnvCreds, \* the credentials were passed by the environment
    serverCred,      \* serverConfig's credential in memory
    savedCred,       \* the credential in the saved configuration file
    peerCred,        \* peerCred[p]: the credential peer p holds
    cpc,             \* cpc[c]: position of set-credentials request c in its handler
    cuser,           \* cuser[c], cpass[c]: username and password of the request body
    cpass,
    cpending,        \* cpending[c]: peers whose update call has not returned
    ccalls,          \* ccalls[c]: number of peer update calls issued (history)
    cresp,           \* cresp[c]: the response written to the client
    cfailed,         \* cfailed[c]: peers whose update call returned an error (history)
    csaved,          \* csaved[c]: outcome of serverConfig.Save(): "none", "ok", "failed" (history)
    nsLocks,         \* nsLocks[i]: the lock record held on LockResources[i], or NoLock
    nextLockID,      \* the id of the next lock the lock manager grants
    now,             \* the clock
    lpc,             \* lpc[l]: position of lock request l in its handler
    lkind,           \* lkind[l]: "list", "clear" or "listObjectsHeal"
    lbucket,         \* lbucket[l], lprefix[l]: the bucket and prefix query values
    lprefix,
    lduration,       \* lduration[l]: the parsed duration
    volLocks,        \* volLocks[l]: the handler's local volLocks
    lidx,            \* lidx[l]: position of the ForceUnlock loop in volLocks[l]
    lresp,           \* lresp[l]: the response written to the client
    lqueries,        \* lqueries[l]: number of peers queried for locks (history)
    lhealCalls,      \* lhealCalls[l]: number of ListObjectsHeal calls (history)
    lforced          \* lforced[l]: ids of the locks request l force-released (history)

\* The state only the heal handlers change.
healVars == <<globalIsXL, globalObjLayerMutex, nextEngine, shutdowns, bucketState,
              objectState, formatState, storageInits, peerReinits, hpc, hkind, hvars,
              hbucket, hobject, hobjLayer, hnewAPI, hresp, hcalls, hprev>>
\* The state of the status and server-info handlers.
statusVars == <<spc, skind, uptimeErrs, sresp>>
\* The state of the set-credentials handler.
credsVars == <<globalIsEnvCreds, serverCred, savedCred, peerCred, cpc, cuser, cpass,
               cpending, ccalls, cresp, cfailed, csaved>>
\* The state of the lock manager and of the lock and heal-listing handlers.
lockVars == <<nsLocks, nextLockID, now, lpc, lkind, lbucket, lprefix, lduration, volLocks,
              lidx, lresp, lqueries, lhealCalls, lforced>>
\* The state the set-config and heal handlers leave alone.
adminVars == <<statusVars, credsVars, lockVars>>
\* The restart command in flight and the state of ServiceRestartHandler.
restartVars == <<restartPending, restarts, rpc, rresp, rcalls>>
\* The state only SetConfigHandler and ServiceRestartHandler change.
configVars == <<files, configLock, nextUUID, active, pc, configBytes, tmpFileName, errs,
                pending, resp, calls, stagedAt, committedAt, lastLock, restartVars>>

vars == <<n, globalObjectAPI, files, configLock, nextUUID, active, pc,
          configBytes, tmpFileName, errs, pending, resp, calls, stagedAt, committedAt,
          lastLock, restartVars, globalIsXL, globalObjLayerMutex, nextEngine, shutdowns, bucketState,
          objectState, formatState, storageInits, peerReinits, hpc, hkind, hvars,
          hbucket, hobject, hobjLayer, hnewAPI, hresp, hcalls, hprev, adminVars>>

\* ------------------------------------------------------------ peer registry
globalAdminPeers == [i \in 1..n |-> i]

\* make([]error, len(peers)): every slot nil until its call returns.
NewErrs(peers) == [i \in 1..Len(peers) |-> Nil]

NoCalls == [write |-> [p \in PeerIds |-> 0], commit |-> [p \in PeerIds |-> 0], restart |-> 0]

\* --------------------------------------------------------- quorum evaluator
\* Number of error-free slots.
NilCount(es) == Cardinality({i \in 1..Len(es) : es[i] = Nil})

RECURSIVE FirstErr(_, _)
FirstErr(es, i) ==
    IF i > Len(es) THEN Nil
    ELSE IF es[i] # Nil THEN es[i]
    ELSE FirstErr(es, i + 1)

\* nil when at least `quorum` slots are error-free, otherwise a representative
\* error: the first non-nil one.
reduceWriteQuorumErrs(es, quorum) ==
    IF NilCount(es) >= quorum THEN Nil ELSE FirstErr(es, 1)

\* fmt.Sprintf("%v", err)
Sprintf(err) == IF err = Nil THEN "<nil>" ELSE err

\* writeSetConfigResponse: one nodeSummary per element of errs.
writeSetConfigResponseInverted(peers, es, status) ==
    [kind |-> "setConfigResult",
     status |-> status,
     nodeResults |-> [i \in 1..Len(es) |->
                        [name |-> peers[i], errSet |-> es[i] = Nil, errMsg |-> Sprintf(es[i])]]]
writeSetConfigResponseStatusTrue(peers, es, status) ==
    [kind |-> "setConfigResult",
     status |-> TRUE,
     nodeResults |-> [i \in 1..Len(es) |->
                        [name |-> peers[i], errSet |-> es[i] # Nil, errMsg |-> Sprintf(es[i])]]]
writeSetConfigResponse(peers, es, status) ==
    [kind |-> "setConfigResult",
     status |-> status,
     nodeResults |-> [i \in 1..Len(es) |->
                        [name |-> peers[i], errSet |-> es[i] # Nil, errMsg |-> Sprintf(es[i])]]]

ErrorResponse(code) == [kind |-> "error", code |-> code]

\* len(globalAdminPeers)/2 + 1
WriteQuorumHalf == Len(globalAdminPeers) \div 2
WriteQuorumAll == Len(globalAdminPeers)
WriteQuorum == Len(globalAdminPeers) \div 2 + 1

\* Peer p's canonical configuration document, as a reader sees it.
config(p) == files[p][ConfigFile]

\* ------------------------------------------------------------- peer calls
\* WriteTmpConfig on peer p: a reachable peer writes `bytes` to file `name`
\* and answers nil; an unreachable one does nothing and the call times out.
WriteTmpConfig(p, name, bytes, ok) ==
    files' = IF ok THEN [files EXCEPT ![p][name] = bytes] ELSE files

\* CommitConfig on peer p: a reachable peer renames file `name` to config.json,
\* which fails when `name` does not exist.
CommitConfigErr(p, name, ok) ==
    IF ~ok THEN errTimeout
    ELSE IF files[p][name] = NoFile THEN errFileNotFound
    ELSE Nil
CommitConfig(p, name, ok) ==
    files' = IF CommitConfigErr(p, name, ok) = Nil
             THEN [files EXCEPT ![p] = [f \in FileNames |->
                      IF f = ConfigFile THEN files[p][name]
                      ELSE IF f = name THEN NoFile
                      ELSE files[p][f]]]
             ELSE files

\* NSLock.Lock(): blocks until the lock on minio/config.json is free.
NSLockAcquire(r) ==
    /\ configLock = NoHolder
    /\ configLock' = r
\* NSLock.Unlock()
NSLockRelease(r) ==
    configLock' = IF configLock = r THEN NoHolder ELSE configLock

\* ------------------------------------------------------- SetConfigHandler
\* fmt.Sprintf(minioConfigTmpFormat, mustGetUUID())
NewTmpFileNameFixed == CHOOSE f \in TmpNames : \A g \in TmpNames : f <= g
NewTmpFileName == nextUUID

\* Entry checks, body read, fresh temporary name and dispatch of the staging
\* fan-out.
SetConfigBegin(r) ==
    /\ r \in active
    /\ pc[r] = "idle"
    /\ globalObjLayerMutex = NoHolder
    /\ \E authOK \in BOOLEAN, bodyOK \in BOOLEAN, doc \in ConfigDocs :
         IF globalObjectAPI = NilObjectAPI \/ ~authOK \/ ~bodyOK
         THEN /\ resp' = [resp EXCEPT ![r] =
                    ErrorResponse(IF globalObjectAPI = NilObjectAPI THEN "ErrServerNotInitialized"
                                  ELSE IF ~authOK THEN "ErrAccessDenied"
                                  ELSE "ErrInternalError")]
              /\ pc' = [pc EXCEPT ![r] = "done"]
              /\ UNCHANGED <<configBytes, tmpFileName, nextUUID, errs, pending>>
         ELSE /\ configBytes' = [configBytes EXCEPT ![r] = doc]
              /\ tmpFileName' = [tmpFileName EXCEPT ![r] = NewTmpFileName]
              /\ nextUUID' = nextUUID + 1
              /\ errs' = [errs EXCEPT ![r] = NewErrs(globalAdminPeers)]
              /\ pending' = [pending EXCEPT ![r] = 1..n]
              /\ pc' = [pc EXCEPT ![r] = "staging"]
              /\ resp' = resp
    /\ UNCHANGED <<healVars, adminVars, lastLock, restartVars>>
    /\ UNCHANGED <<n, globalObjectAPI, files, configLock, active, calls,
                   stagedAt, committedAt>>

\* writeTmpConfigPeers(globalAdminPeers, tmpFileName, configBytes): the call to
\* one peer returns.
StagePeerCanonical(r) ==
    /\ pc[r] = "staging"
    /\ \E p \in pending[r], ok \in BOOLEAN :
         /\ WriteTmpConfig(p, ConfigFile, configBytes[r], ok)
         /\ errs' = [errs EXCEPT ![r][p] = IF ok THEN Nil ELSE errTimeout]
         /\ stagedAt' = IF ok THEN [stagedAt EXCEPT ![r] = @ \cup {p}] ELSE stagedAt
         /\ pending' = [pending EXCEPT ![r] = @ \ {p}]
         /\ calls' = [calls EXCEPT ![r].write[p] = @ + 1]
    /\ UNCHANGED <<healVars, adminVars, lastLock, restartVars>>
    /\ UNCHANGED <<n, globalObjectAPI, configLock, nextUUID, active, pc, configBytes,
                   tmpFileName, resp, committedAt>>
StagePeer(r) ==
    /\ pc[r] = "staging"
    /\ \E p \in pending[r], ok \in BOOLEAN :
         /\ WriteTmpConfig(p, tmpFileName[r], configBytes[r], ok)
         /\ errs' = [errs EXCEPT ![r][p] = IF ok THEN Nil ELSE errTimeout]
         /\ stagedAt' = IF ok THEN [stagedAt EXCEPT ![r] = @ \cup {p}] ELSE stagedAt
         /\ pending' = [pending EXCEPT ![r] = @ \ {p}]
         /\ calls' = [calls EXCEPT ![r].write[p] = @ + 1]
    /\ UNCHANGED <<healVars, adminVars, lastLock, restartVars>>
    /\ UNCHANGED <<n, globalObjectAPI, configLock, nextUUID, active, pc, configBytes,
                   tmpFileName, resp, committedAt>>

\* rErr != nil after the staging fan-out.
StageCheckFailsNever(r) == FALSE
StageCheckFails(r) == reduceWriteQuorumErrs(errs[r], WriteQuorum) # Nil

\* The staging fan-out has returned: quorum check, and the early return.
StagedQuorumCheck(r) ==
    /\ pc[r] = "staging"
    /\ pending[r] = {}
    /\ IF StageCheckFails(r)
       THEN /\ resp' = [resp EXCEPT ![r] =
                          writeSetConfigResponse(globalAdminPeers, errs[r], FALSE)]
            /\ pc' = [pc EXCEPT ![r] = "done"]
       ELSE /\ resp' = resp
            /\ pc' = [pc EXCEPT ![r] = "locking"]
    /\ UNCHANGED <<healVars, adminVars, lastLock, restartVars>>
    /\ UNCHANGED <<n, globalObjectAPI, files, configLock, nextUUID, active,
                   configBytes, tmpFileName, errs, pending, calls, stagedAt, committedAt>>

\* configLock.Lock(), then dispatch of the commit fan-out.
ConfigLockSkipped(r) ==
    /\ pc[r] = "locking"
    /\ configLock' = configLock
    /\ pc' = [pc EXCEPT ![r] = "committing"]
    /\ errs' = [errs EXCEPT ![r] = NewErrs(globalAdminPeers)]
    /\ pending' = [pending EXCEPT ![r] = 1..n]
    /\ lastLock' = r
    /\ UNCHANGED <<healVars, adminVars, restartVars>>
    /\ UNCHANGED <<n, globalObjectAPI, files, nextUUID, active, configBytes,
                   tmpFileName, resp, calls, stagedAt, committedAt>>
ConfigLock(r) ==
    /\ pc[r] = "locking"
    /\ NSLockAcquire(r)
    /\ pc' = [pc EXCEPT ![r] = "committing"]
    /\ errs' = [errs EXCEPT ![r] = NewErrs(globalAdminPeers)]
    /\ pending' = [pending EXCEPT ![r] = 1..n]
    /\ lastLock' = r
    /\ UNCHANGED <<healVars, adminVars, restartVars>>
    /\ UNCHANGED <<n, globalObjectAPI, files, nextUUID, active, configBytes,
                   tmpFileName, resp, calls, stagedAt, committedAt>>

\* commitConfigPeers(globalAdminPeers, tmpFileName): the call to one peer returns.
CommitPeer(r) ==
    /\ pc[r] = "committing"
    /\ \E p \in pending[r], ok \in BOOLEAN :
         LET err == CommitConfigErr(p, tmpFileName[r], ok) IN
         /\ CommitConfig(p, tmpFileName[r], ok)
         /\ errs' = [errs EXCEPT ![r][p] = err]
         /\ committedAt' = IF err = Nil THEN [committedAt EXCEPT ![r] = @ \cup {p}]
                           ELSE committedAt
         /\ pending' = [pending EXCEPT ![r] = @ \ {p}]
         /\ calls' = [calls EXCEPT ![r].commit[p] = @ + 1]
    /\ UNCHANGED <<healVars, adminVars, lastLock, restartVars>>
    /\ UNCHANGED <<n, globalObjectAPI, configLock, nextUUID, active, pc, configBytes,
                   tmpFileName, resp, stagedAt>>

\* defer configLock.Unlock(): runs when the handler returns.
DeferredUnlockMissing(r) == configLock' = configLock
DeferredUnlock(r) == NSLockRelease(r)

\* rErr != nil after the commit fan-out.
CommitCheckFailsNever(r) == FALSE
CommitCheckFails(r) == reduceWriteQuorumErrs(errs[r], WriteQuorum) # Nil

\* The commit fan-out has returned: quorum check; on failure the response is
\* written and the handler returns, otherwise the success response is written.
CommittedQuorumCheck(r) ==
    /\ pc[r] = "committing"
    /\ pending[r] = {}
    /\ IF CommitCheckFails(r)
       THEN /\ resp' = [resp EXCEPT ![r] =
                          writeSetConfigResponse(globalAdminPeers, errs[r], FALSE)]
            /\ DeferredUnlock(r)
            /\ pc' = [pc EXCEPT ![r] = "done"]
       ELSE /\ resp' = [resp EXCEPT ![r] =
                          writeSetConfigResponse(globalAdminPeers, errs[r], TRUE)]
            /\ configLock' = configLock
            /\ pc' = [pc EXCEPT ![r] = "restart"]
    /\ UNCHANGED <<healVars, adminVars, lastLock, restartVars>>
    /\ UNCHANGED <<n, globalObjectAPI, files, nextUUID, active, configBytes,
                   tmpFileName, errs, pending, calls, stagedAt, committedAt>>

\* sendServiceCmd(peers, serviceRestart): every peer receives the restart
\* command; the call returns once it is delivered, the restarts happen later.
sendServiceCmd(peers) ==
    restartPending' = restartPending \cup {peers[i] : i \in 1..Len(peers)}

\* sendServiceCmd(globalAdminPeers, serviceRestart), then the handler returns.
SendRestart(r) ==
    /\ pc[r] = "restart"
    /\ calls' = [calls EXCEPT ![r].restart = @ + 1]
    /\ sendServiceCmd(globalAdminPeers)
    /\ DeferredUnlock(r)
    /\ pc' = [pc EXCEPT ![r] = "done"]
    /\ UNCHANGED <<healVars, adminVars, lastLock, restarts, rpc, rresp, rcalls>>
    /\ UNCHANGED <<n, globalObjectAPI, files, nextUUID, active, configBytes,
                   tmpFileName, errs, pending, resp, stagedAt, committedAt>>

SetConfigHandler(r) ==
    \/ SetConfigBegin(r)
    \/ StagePeer(r)
    \/ StagedQuorumCheck(r)
    \/ ConfigLock(r)
    \/ CommitPeer(r)
    \/ CommittedQuorumCheck(r)
    \/ SendRestart(r)

ErrNone == "ErrNone"
SuccessResponse == [kind |-> "ok"]

\* -------------------------------------------------- ServiceRestartHandler
\* The signature check and, when it passes, the reply to the client.
ServiceRestartBeginNoReply(x) ==
    /\ rpc[x] = "idle"
    /\ \E authOK \in BOOLEAN :
         IF ~authOK
         THEN /\ rresp' = [rresp EXCEPT ![x] = ErrorResponse("ErrAccessDenied")]
              /\ rpc' = [rpc EXCEPT ![x] = "done"]
         ELSE /\ rresp' = rresp
              /\ rpc' = [rpc EXCEPT ![x] = "restart"]
    /\ UNCHANGED <<n, globalObjectAPI, healVars, adminVars>>
    /\ UNCHANGED <<files, configLock, nextUUID, active, pc, configBytes, tmpFileName, errs,
                   pending, resp, calls, stagedAt, committedAt, lastLock>>
    /\ UNCHANGED <<restartPending, restarts, rcalls>>
ServiceRestartBegin(x) ==
    /\ rpc[x] = "idle"
    /\ \E authOK \in BOOLEAN :
         IF ~authOK
         THEN /\ rresp' = [rresp EXCEPT ![x] = ErrorResponse("ErrAccessDenied")]
              /\ rpc' = [rpc EXCEPT ![x] = "done"]
         ELSE /\ rresp' = [rresp EXCEPT ![x] = SuccessResponse]
              /\ rpc' = [rpc EXCEPT ![x] = "restart"]
    /\ UNCHANGED <<n, globalObjectAPI, healVars, adminVars>>
    /\ UNCHANGED <<files, configLock, nextUUID, active, pc, configBytes, tmpFileName, errs,
                   pending, resp, calls, stagedAt, committedAt, lastLock>>
    /\ UNCHANGED <<restartPending, restarts, rcalls>>

\* sendServiceCmd(globalAdminPeers, serviceRestart), then the handler returns.
ServiceRestartSend(x) ==
    /\ rpc[x] = "restart"
    /\ rcalls' = [rcalls EXCEPT ![x] = @ + 1]
    /\ sendServiceCmd(globalAdminPeers)
    /\ rpc' = [rpc EXCEPT ![x] = "done"]
    /\ UNCHANGED <<n, globalObjectAPI, healVars, adminVars>>
    /\ UNCHANGED <<files, configLock, nextUUID, active, pc, configBytes, tmpFileName, errs,
                   pending, resp, calls, stagedAt, committedAt, lastLock>>
    /\ UNCHANGED <<restarts, rresp>>

ServiceRestartHandler(x) ==
    \/ ServiceRestartBegin(x)
    \/ ServiceRestartSend(x)

\* A peer that received the restart command restarts, whether or not the
\* handler that sent the command has returned.
PeerRestart(p) ==
    /\ p \in restartPending
    /\ restartPending' = restartPending \ {p}
    /\ restarts' = [restarts EXCEPT ![p] = @ + 1]
    /\ UNCHANGED <<n, globalObjectAPI, healVars, adminVars>>
    /\ UNCHANGED <<files, configLock, nextUUID, active, pc, configBytes, tmpFileName, errs,
                   pending, resp, calls, stagedAt, committedAt, lastLock>>
    /\ UNCHANGED <<rpc, rresp, rcalls>>

\* ----------------------------------------------------------- heal handlers
\* isDryRun: the dry-run key is present in the query values.
isDryRunNever(qval) == FALSE
isDryRun(qval) == mgmtDryRun \in qval

\* IsValidBucketName / IsValidObjectName: the empty name is invalid.
IsValidBucketName(bucket) == bucket # ""
IsValidObjectName(object) == object # ""

\* checkBucketExist: the name is valid and the engine's GetBucketInfo finds it.
checkBucketExist(bucket) ==
    IF ~IsValidBucketName(bucket) THEN "ErrInvalidBucketName"
    ELSE IF bucketState[bucket] = "missing" THEN "ErrNoSuchBucket"
    ELSE ErrNone

checkBucketAndObjectNames(bucket, object) ==
    IF ~IsValidBucketName(bucket) THEN "ErrInvalidBucketName"
    ELSE IF ~IsValidObjectName(object) THEN "ErrInvalidObjectName"
    ELSE ErrNone

\* The engine's GetObjectInfo on valid names.
GetObjectInfo(bucket, object) ==
    IF bucketState[bucket] = "missing" THEN "ErrNoSuchBucket"
    ELSE IF objectState[object] = "missing" THEN "ErrNoSuchKey"
    ELSE ErrNone

\* One more operation in request h's log.
Logged(h, op) == hcalls' = [hcalls EXCEPT ![h] = Append(@, op)]

\* A step of request h returned an error: the operation and the failure are logged.
LoggedFailure(h, op) == hcalls' = [hcalls EXCEPT ![h] = Append(Append(@, op), "failed")]

HealRespond(h, response) ==
    /\ hresp' = [hresp EXCEPT ![h] = response]
    /\ hpc' = [hpc EXCEPT ![h] = "done"]

\* if !globalIsXL
IsNotXLNever == FALSE
IsNotXL == ~globalIsXL

\* The head of the three heal handlers: newObjectLayerFn(), the signature
\* check and, per handler, the validation that needs no engine call.
HealBegin(h) ==
    /\ hpc[h] = "idle"
    /\ globalObjLayerMutex = NoHolder
    /\ \E kind \in {"bucket", "object", "format"}, qval \in SUBSET {mgmtDryRun},
          bucket \in BucketNames, object \in ObjectNames, authOK \in BOOLEAN :
         /\ hkind' = [hkind EXCEPT ![h] = kind]
         /\ hvars' = [hvars EXCEPT ![h] = qval]
         /\ hbucket' = [hbucket EXCEPT ![h] = bucket]
         /\ hobject' = [hobject EXCEPT ![h] = object]
         /\ hobjLayer' = [hobjLayer EXCEPT ![h] = globalObjectAPI]
         /\ IF globalObjectAPI = NilObjectAPI
            THEN HealRespond(h, ErrorResponse("ErrServerNotInitialized"))
            ELSE IF ~authOK
            THEN HealRespond(h, ErrorResponse("ErrAccessDenied"))
            ELSE IF kind = "bucket"
            THEN /\ hpc' = [hpc EXCEPT ![h] = "checkBucket"]
                 /\ hresp' = hresp
            ELSE IF kind = "object"
            THEN IF checkBucketAndObjectNames(bucket, object) # ErrNone
                 THEN HealRespond(h, ErrorResponse(checkBucketAndObjectNames(bucket, object)))
                 ELSE /\ hpc' = [hpc EXCEPT ![h] = "getObjectInfo"]
                      /\ hresp' = hresp
            ELSE IF IsNotXL
            THEN HealRespond(h, ErrorResponse("ErrNotImplemented"))
            ELSE IF isDryRun(qval)
            THEN HealRespond(h, SuccessResponse)
            ELSE /\ hpc' = [hpc EXCEPT ![h] = "initStorageDisks"]
                 /\ hresp' = hresp
    /\ UNCHANGED <<n, configVars, adminVars>>
    /\ UNCHANGED <<globalObjectAPI, globalIsXL, globalObjLayerMutex, nextEngine, shutdowns,
                   bucketState, objectState, formatState, storageInits, peerReinits,
                   hnewAPI, hcalls, hprev>>

\* HealBucketHandler: checkBucketExist, then the dry-run gate.
HealBucketCheck(h) ==
    /\ hpc[h] = "checkBucket"
    /\ Logged(h, "GetBucketInfo")
    /\ IF checkBucketExist(hbucket[h]) # ErrNone
       THEN HealRespond(h, ErrorResponse(checkBucketExist(hbucket[h])))
       ELSE IF isDryRun(hvars[h])
       THEN HealRespond(h, SuccessResponse)
       ELSE /\ hpc' = [hpc EXCEPT ![h] = "healBucket"]
            /\ hresp' = hresp
    /\ UNCHANGED <<n, configVars, adminVars>>
    /\ UNCHANGED <<globalObjectAPI, globalIsXL, globalObjLayerMutex, nextEngine, shutdowns,
                   bucketState, objectState, formatState, storageInits, peerReinits,
                   hkind, hvars, hbucket, hobject, hprev, hobjLayer, hnewAPI>>

\* HealBucketHandler: objLayer.HealBucket(bucket) and the response.
HealBucketHeal(h) ==
    /\ hpc[h] = "healBucket"
    /\ Logged(h, "HealBucket")
    /\ \E ok \in BOOLEAN :
         IF ok
         THEN /\ bucketState' = [bucketState EXCEPT ![hbucket[h]] = "ok"]
              /\ HealRespond(h, SuccessResponse)
         ELSE /\ bucketState' = bucketState
              /\ HealRespond(h, ErrorResponse("ErrInternalError"))
    /\ UNCHANGED <<n, configVars, adminVars>>
    /\ UNCHANGED <<globalObjectAPI, globalIsXL, globalObjLayerMutex, nextEngine, shutdowns,
                   objectState, formatState, storageInits, peerReinits,
                   hkind, hvars, hbucket, hobject, hprev, hobjLayer, hnewAPI>>

\* HealObjectHandler: objLayer.GetObjectInfo, then the dry-run gate.
HealObjectInfoIgnoresErr(h) ==
    /\ hpc[h] = "getObjectInfo"
    /\ Logged(h, "GetObjectInfo")
    /\ IF isDryRun(hvars[h])
       THEN HealRespond(h, SuccessResponse)
       ELSE /\ hpc' = [hpc EXCEPT ![h] = "healObject"]
            /\ hresp' = hresp
    /\ UNCHANGED <<n, configVars, adminVars>>
    /\ UNCHANGED <<globalObjectAPI, globalIsXL, globalObjLayerMutex, nextEngine, shutdowns,
                   bucketState, objectState, formatState, storageInits, peerReinits,
                   hkind, hvars, hbucket, hobject, hprev, hobjLayer, hnewAPI>>
HealObjectInfo(h) ==
    /\ hpc[h] = "getObjectInfo"
    /\ Logged(h, "GetObjectInfo")
    /\ IF GetObjectInfo(hbucket[h], hobject[h]) # ErrNone
       THEN HealRespond(h, ErrorResponse(GetObjectInfo(hbucket[h], hobject[h])))
       ELSE IF isDryRun(hvars[h])
       THEN HealRespond(h, SuccessResponse)
       ELSE /\ hpc' = [hpc EXCEPT ![h] = "healObject"]
            /\ hresp' = hresp
    /\ UNCHANGED <<n, configVars, adminVars>>
    /\ UNCHANGED <<globalObjectAPI, globalIsXL, globalObjLayerMutex, nextEngine, shutdowns,
                   bucketState, objectState, formatState, storageInits, peerReinits,
                   hkind, hvars, hbucket, hobject, hprev, hobjLayer, hnewAPI>>

\* HealObjectHandler: objLayer.HealObject(bucket, object) and the response.
HealObjectHeal(h) ==
    /\ hpc[h] = "healObject"
    /\ Logged(h, "HealObject")
    /\ \E ok \in BOOLEAN :
         IF ok
         THEN /\ objectState' = [objectState EXCEPT ![hobject[h]] = "ok"]
              /\ HealRespond(h, SuccessResponse)
         ELSE /\ objectState' = objectState
              /\ HealRespond(h, ErrorResponse("ErrInternalError"))
    /\ UNCHANGED <<n, configVars, adminVars>>
    /\ UNCHANGED <<globalObjectAPI, globalIsXL, globalObjLayerMutex, nextEngine, shutdowns,
                   bucketState, formatState, storageInits, peerReinits,
                   hkind, hvars, hbucket, hobject, hprev, hobjLayer, hnewAPI>>

\* HealFormatHandler: initStorageDisks(globalEndpoints).
FormatInitDisks(h) ==
    /\ hpc[h] = "initStorageDisks"
    /\ storageInits' = storageInits + 1
    /\ \E ok \in BOOLEAN :
         IF ok
         THEN /\ Logged(h, "initStorageDisks")
              /\ hpc' = [hpc EXCEPT ![h] = "healFormatXL"]
              /\ hresp' = hresp
         ELSE /\ LoggedFailure(h, "initStorageDisks")
              /\ HealRespond(h, ErrorResponse("ErrInternalError"))
    /\ UNCHANGED <<n, configVars, adminVars>>
    /\ UNCHANGED <<globalObjectAPI, globalIsXL, globalObjLayerMutex, nextEngine, shutdowns,
                   bucketState, objectState, formatState, peerReinits,
                   hkind, hvars, hbucket, hobject, hprev, hobjLayer, hnewAPI>>

\* HealFormatHandler: healFormatXL(bootstrapDisks).
FormatHeal(h) ==
    /\ hpc[h] = "healFormatXL"
    /\ \E ok \in BOOLEAN :
         IF ok
         THEN /\ Logged(h, "healFormatXL")
              /\ formatState' = "ok"
              /\ hpc' = [hpc EXCEPT ![h] = "newXLObjects"]
              /\ hresp' = hresp
         ELSE /\ LoggedFailure(h, "healFormatXL")
              /\ formatState' = formatState
              /\ HealRespond(h, ErrorResponse("ErrInternalError"))
    /\ UNCHANGED <<n, configVars, adminVars>>
    /\ UNCHANGED <<globalObjectAPI, globalIsXL, globalObjLayerMutex, nextEngine, shutdowns,
                   bucketState, objectState, storageInits, peerReinits,
                   hkind, hvars, hbucket, hobject, hprev, hobjLayer, hnewAPI>>

\* HealFormatHandler: newXLObjects(bootstrapDisks).
FormatNewXLObjectsContinues(h) ==
    /\ hpc[h] = "newXLObjects"
    /\ \E ok \in BOOLEAN :
         IF ok
         THEN /\ Logged(h, "newXLObjects")
              /\ hnewAPI' = [hnewAPI EXCEPT ![h] = nextEngine]
              /\ nextEngine' = nextEngine + 1
              /\ hpc' = [hpc EXCEPT ![h] = "lock"]
              /\ hresp' = hresp
         ELSE /\ LoggedFailure(h, "newXLObjects")
              /\ hnewAPI' = hnewAPI
              /\ nextEngine' = nextEngine
              /\ hpc' = [hpc EXCEPT ![h] = "lock"]
              /\ hresp' = [hresp EXCEPT ![h] = ErrorResponse("ErrInternalError")]
    /\ UNCHANGED <<n, configVars, adminVars>>
    /\ UNCHANGED <<globalObjectAPI, globalIsXL, globalObjLayerMutex, shutdowns,
                   bucketState, objectState, formatState, storageInits, peerReinits,
                   hkind, hvars, hbucket, hobject, hprev, hobjLayer>>
FormatNewXLObjects(h) ==
    /\ hpc[h] = "newXLObjects"
    /\ \E ok \in BOOLEAN :
         IF ok
         THEN /\ Logged(h, "newXLObjects")
              /\ hnewAPI' = [hnewAPI EXCEPT ![h] = nextEngine]
              /\ nextEngine' = nextEngine + 1
              /\ hpc' = [hpc EXCEPT ![h] = "lock"]
              /\ hresp' = hresp
         ELSE /\ LoggedFailure(h, "newXLObjects")
              /\ hnewAPI' = hnewAPI
              /\ nextEngine' = nextEngine
              /\ HealRespond(h, ErrorResponse("ErrInternalError"))
    /\ UNCHANGED <<n, configVars, adminVars>>
    /\ UNCHANGED <<globalObjectAPI, globalIsXL, globalObjLayerMutex, shutdowns,
                   bucketState, objectState, formatState, storageInits, peerReinits,
                   hkind, hvars, hbucket, hobject, hprev, hobjLayer>>

\* HealFormatHandler: globalObjLayerMutex.Lock().
FormatLock(h) ==
    /\ hpc[h] = "lock"
    /\ globalObjLayerMutex = NoHolder
    /\ globalObjLayerMutex' = h
    /\ Logged(h, "Lock")
    /\ hpc' = [hpc EXCEPT ![h] = "assign"]
    /\ UNCHANGED <<n, configVars, adminVars>>
    /\ UNCHANGED <<globalObjectAPI, globalIsXL, nextEngine, shutdowns,
                   bucketState, objectState, formatState, storageInits, peerReinits,
                   hkind, hvars, hbucket, hobject, hprev, hobjLayer, hnewAPI, hresp>>

\* HealFormatHandler: globalObjectAPI = newObjectAPI.
FormatAssign(h) ==
    /\ hpc[h] = "assign"
    /\ hprev' = [hprev EXCEPT ![h] = globalObjectAPI]
    /\ globalObjectAPI' = hnewAPI[h]
    /\ Logged(h, "assign")
    /\ hpc' = [hpc EXCEPT ![h] = "unlock"]
    /\ UNCHANGED <<n, configVars, adminVars>>
    /\ UNCHANGED <<globalIsXL, globalObjLayerMutex, nextEngine, shutdowns,
                   bucketState, objectState, formatState, storageInits, peerReinits,
                   hkind, hvars, hbucket, hobject, hobjLayer, hnewAPI, hresp>>

\* HealFormatHandler: globalObjLayerMutex.Unlock().
FormatUnlockDeferred(h) ==
    /\ hpc[h] = "unlock"
    /\ globalObjLayerMutex' = globalObjLayerMutex
    /\ Logged(h, "Unlock")
    /\ hpc' = [hpc EXCEPT ![h] = "shutdown"]
    /\ UNCHANGED <<n, configVars, adminVars>>
    /\ UNCHANGED <<globalObjectAPI, globalIsXL, nextEngine, shutdowns,
                   bucketState, objectState, formatState, storageInits, peerReinits,
                   hkind, hvars, hbucket, hobject, hprev, hobjLayer, hnewAPI, hresp>>
FormatUnlock(h) ==
    /\ hpc[h] = "unlock"
    /\ globalObjLayerMutex' = NoHolder
    /\ Logged(h, "Unlock")
    /\ hpc' = [hpc EXCEPT ![h] = "shutdown"]
    /\ UNCHANGED <<n, configVars, adminVars>>
    /\ UNCHANGED <<globalObjectAPI, globalIsXL, nextEngine, shutdowns,
                   bucketState, objectState, formatState, storageInits, peerReinits,
                   hkind, hvars, hbucket, hobject, hprev, hobjLayer, hnewAPI, hresp>>

\* HealFormatHandler: objectAPI.Shutdown() on the instance read at entry.
FormatShutdownCurrent(h) ==
    /\ hpc[h] = "shutdown"
    /\ shutdowns' = [shutdowns EXCEPT ![globalObjectAPI] = @ + 1]
    /\ Logged(h, "Shutdown")
    /\ hpc' = [hpc EXCEPT ![h] = "reInitPeerDisks"]
    /\ UNCHANGED <<n, configVars, adminVars>>
    /\ UNCHANGED <<globalObjectAPI, globalIsXL, globalObjLayerMutex, nextEngine,
                   bucketState, objectState, formatState, storageInits, peerReinits,
                   hkind, hvars, hbucket, hobject, hprev, hobjLayer, hnewAPI, hresp>>
FormatShutdown(h) ==
    /\ hpc[h] = "shutdown"
    /\ shutdowns' = [shutdowns EXCEPT ![hobjLayer[h]] = @ + 1]
    /\ Logged(h, "Shutdown")
    /\ hpc' = [hpc EXCEPT ![h] = "reInitPeerDisks"]
    /\ UNCHANGED <<n, configVars, adminVars>>
    /\ UNCHANGED <<globalObjectAPI, globalIsXL, globalObjLayerMutex, nextEngine,
                   bucketState, objectState, formatState, storageInits, peerReinits,
                   hkind, hvars, hbucket, hobject, hprev, hobjLayer, hnewAPI, hresp>>

\* HealFormatHandler: reInitPeerDisks(globalAdminPeers) and the response.
FormatReInitPeers(h) ==
    /\ hpc[h] = "reInitPeerDisks"
    /\ peerReinits' = peerReinits + 1
    /\ Logged(h, "reInitPeerDisks")
    /\ HealRespond(h, SuccessResponse)
    /\ UNCHANGED <<n, configVars, adminVars>>
    /\ UNCHANGED <<globalObjectAPI, globalIsXL, globalObjLayerMutex, nextEngine, shutdowns,
                   bucketState, objectState, formatState, storageInits,
                   hkind, hvars, hbucket, hobject, hprev, hobjLayer, hnewAPI>>

HealHandler(h) ==
    \/ HealBegin(h)
    \/ HealBucketCheck(h)
    \/ HealBucketHeal(h)
    \/ HealObjectInfo(h)
    \/ HealObjectHeal(h)
    \/ FormatInitDisks(h)
    \/ FormatHeal(h)
    \/ FormatNewXLObjects(h)
    \/ FormatLock(h)
    \/ FormatAssign(h)
    \/ FormatUnlock(h)
    \/ FormatShutdown(h)
    \/ FormatReInitPeers(h)

\* ------------------------------------------- status and server-info handlers
\* The error of a read that fewer than a majority of the peers answered.
InsufficientReadQuorum == "InsufficientReadQuorum"

\* getPeerUptimes: the uptime when a majority of the peers answered, otherwise
\* the quorum error.
getPeerUptimes(es) ==
    IF NilCount(es) >= Len(es) \div 2 + 1 THEN Nil ELSE InsufficientReadQuorum

\* toAPIErrorCode: the quorum error keeps a code of its own; any other error
\* is an internal error.
toAPIErrorCode(err) ==
    IF err = InsufficientReadQuorum THEN "ErrReadQuorum" ELSE "ErrInternalError"

\* err != nil after getPeerUptimes.
UptimeErrIgnored(err) == FALSE
UptimeErr(err) == err # Nil

StatusRespond(s, response) ==
    /\ sresp' = [sresp EXCEPT ![s] = response]
    /\ spc' = [spc EXCEPT ![s] = "done"]

\* ServiceStatusHandler: the signature check.
ServiceStatusBegin(s) ==
    /\ spc[s] = "idle"
    /\ skind' = [skind EXCEPT ![s] = "status"]
    /\ \E authOK \in BOOLEAN :
         IF ~authOK
         THEN StatusRespond(s, ErrorResponse("ErrAccessDenied"))
         ELSE /\ spc' = [spc EXCEPT ![s] = "uptime"]
              /\ sresp' = sresp
    /\ UNCHANGED <<n, globalObjectAPI, configVars, healVars, credsVars, lockVars, uptimeErrs>>

\* ServiceStatusHandler: getPeerUptimes(globalAdminPeers) and the response.
ServiceStatusUptime(s) ==
    /\ spc[s] = "uptime"
    /\ skind[s] = "status"
    /\ \E es \in [1..n -> {Nil, errTimeout}] :
         /\ uptimeErrs' = [uptimeErrs EXCEPT ![s] = es]
         /\ IF UptimeErr(getPeerUptimes(es))
            THEN StatusRespond(s, ErrorResponse(toAPIErrorCode(getPeerUptimes(es))))
            ELSE StatusRespond(s, [kind |-> "serverStatus",
                                   serverVersion |-> "Version",
                                   uptime |-> "uptime"])
    /\ UNCHANGED <<n, globalObjectAPI, configVars, healVars, credsVars, lockVars, skind>>

\* ServerInfoHandler: the signature check, then newObjectLayerFn().
ServerInfoBegin(s) ==
    /\ spc[s] = "idle"
    /\ globalObjLayerMutex = NoHolder
    /\ skind' = [skind EXCEPT ![s] = "info"]
    /\ \E authOK \in BOOLEAN :
         IF ~authOK
         THEN StatusRespond(s, ErrorResponse("ErrAccessDenied"))
         ELSE IF globalObjectAPI = NilObjectAPI
         THEN StatusRespond(s, ErrorResponse("ErrServerNotInitialized"))
         ELSE /\ spc' = [spc EXCEPT ![s] = "uptime"]
              /\ sresp' = sresp
    /\ UNCHANGED <<n, globalObjectAPI, configVars, healVars, credsVars, lockVars, uptimeErrs>>

\* ServerInfoHandler: getPeerUptimes(globalAdminPeers) and the response.
ServerInfoUptime(s) ==
    /\ spc[s] = "uptime"
    /\ skind[s] = "info"
    /\ \E es \in [1..n -> {Nil, errTimeout}] :
         /\ uptimeErrs' = [uptimeErrs EXCEPT ![s] = es]
         /\ IF UptimeErr(getPeerUptimes(es))
            THEN StatusRespond(s, ErrorResponse(toAPIErrorCode(getPeerUptimes(es))))
            ELSE StatusRespond(s, [kind |-> "serverInfo",
                                   storage |-> "StorageInfo",
                                   network |-> "ConnStats",
                                   server |-> [uptime |-> "uptime", version |-> "Version"]])
    /\ UNCHANGED <<n, globalObjectAPI, configVars, healVars, credsVars, lockVars, skind>>

StatusHandler(s) ==
    \/ ServiceStatusBegin(s)
    \/ ServiceStatusUptime(s)
    \/ ServerInfoBegin(s)
    \/ ServerInfoUptime(s)

\* ------------------------------------------------ ServiceCredentialsHandler
\* validateAuthKeys: an access key of fewer than 5 characters or a secret key
\* of fewer than 8 is rejected.
validateAuthKeys(username, password) ==
    IF Len(username) < 5 THEN "errInvalidAccessKeyLength"
    ELSE IF Len(password) < 8 THEN "errInvalidSecretKeyLength"
    ELSE Nil

\* credential{AccessKey: req.Username, SecretKey: req.Password}
credential(username, password) == [AccessKey |-> username, SecretKey |-> password]

\* if globalIsEnvCreds
CredsFromEnvNever == FALSE
CredsFromEnv == globalIsEnvCreds

CredsRespond(c, response) ==
    /\ cresp' = [cresp EXCEPT ![c] = response]
    /\ cpc' = [cpc EXCEPT ![c] = "done"]

\* The signature check, the environment check, the body and its validation,
\* then the dispatch of updateCredsOnPeers.
CredsBegin(c) ==
    /\ cpc[c] = "idle"
    /\ \E authOK \in BOOLEAN, bodyOK \in BOOLEAN, xmlOK \in BOOLEAN,
          username \in Usernames, password \in Passwords :
         /\ cuser' = [cuser EXCEPT ![c] = username]
         /\ cpass' = [cpass EXCEPT ![c] = password]
         /\ IF ~authOK
            THEN /\ CredsRespond(c, ErrorResponse("ErrAccessDenied"))
                 /\ cpending' = cpending
            ELSE IF CredsFromEnv
            THEN /\ CredsRespond(c, ErrorResponse("ErrMethodNotAllowed"))
                 /\ cpending' = cpending
            ELSE IF ~bodyOK
            THEN /\ CredsRespond(c, ErrorResponse("ErrInternalError"))
                 /\ cpending' = cpending
            ELSE IF ~xmlOK
            THEN /\ CredsRespond(c, ErrorResponse("ErrMalformedXML"))
                 /\ cpending' = cpending
            ELSE IF validateAuthKeys(username, password) # Nil
            THEN /\ CredsRespond(c, ErrorResponse(toAPIErrorCode(validateAuthKeys(username, password))))
                 /\ cpending' = cpending
            ELSE /\ cpc' = [cpc EXCEPT ![c] = "updateCredsOnPeers"]
                 /\ cpending' = [cpending EXCEPT ![c] = 1..n]
                 /\ cresp' = cresp
    /\ UNCHANGED <<n, globalObjectAPI, configVars, healVars, statusVars, lockVars>>
    /\ UNCHANGED <<globalIsEnvCreds, serverCred, savedCred, peerCred, ccalls, cfailed, csaved>>

\* updateCredsOnPeers(creds): the call to one peer returns; an error is logged
\* and nothing else.
CredsUpdatePeerAborts(c) ==
    /\ cpc[c] = "updateCredsOnPeers"
    /\ \E p \in cpending[c], ok \in BOOLEAN :
         /\ peerCred' = IF ok THEN [peerCred EXCEPT ![p] = credential(cuser[c], cpass[c])]
                        ELSE peerCred
         /\ cpending' = [cpending EXCEPT ![c] = @ \ {p}]
         /\ ccalls' = [ccalls EXCEPT ![c] = @ + 1]
         /\ cfailed' = IF ok THEN cfailed ELSE [cfailed EXCEPT ![c] = @ \cup {p}]
         /\ IF ok THEN UNCHANGED <<cpc, cresp>>
            ELSE CredsRespond(c, ErrorResponse("ErrInternalError"))
    /\ UNCHANGED <<n, globalObjectAPI, configVars, healVars, statusVars, lockVars>>
    /\ UNCHANGED <<globalIsEnvCreds, serverCred, savedCred, cuser, cpass, csaved>>
CredsUpdatePeer(c) ==
    /\ cpc[c] = "updateCredsOnPeers"
    /\ \E p \in cpending[c], ok \in BOOLEAN :
         /\ peerCred' = IF ok THEN [peerCred EXCEPT ![p] = credential(cuser[c], cpass[c])]
                        ELSE peerCred
         /\ cpending' = [cpending EXCEPT ![c] = @ \ {p}]
         /\ ccalls' = [ccalls EXCEPT ![c] = @ + 1]
         /\ cfailed' = IF ok THEN cfailed ELSE [cfailed EXCEPT ![c] = @ \cup {p}]
    /\ UNCHANGED <<n, globalObjectAPI, configVars, healVars, statusVars, lockVars>>
    /\ UNCHANGED <<globalIsEnvCreds, serverCred, savedCred, cpc, cuser, cpass, cresp, csaved>>

\* serverConfig.SetCredential(creds), once every peer call has returned.
CredsSetCredential(c) ==
    /\ cpc[c] = "updateCredsOnPeers"
    /\ cpending[c] = {}
    /\ serverCred' = credential(cuser[c], cpass[c])
    /\ cpc' = [cpc EXCEPT ![c] = "Save"]
    /\ UNCHANGED <<n, globalObjectAPI, configVars, healVars, statusVars, lockVars>>
    /\ UNCHANGED <<globalIsEnvCreds, savedCred, peerCred, cuser, cpass, cpending, ccalls, cresp,
                   cfailed, csaved>>

\* serverConfig.Save() writes the configuration in memory, and the response.
CredsSave(c) ==
    /\ cpc[c] = "Save"
    /\ \E ok \in BOOLEAN :
         IF ok
         THEN /\ savedCred' = serverCred
              /\ csaved' = [csaved EXCEPT ![c] = "ok"]
              /\ CredsRespond(c, SuccessResponse)
         ELSE /\ savedCred' = savedCred
              /\ csaved' = [csaved EXCEPT ![c] = "failed"]
              /\ CredsRespond(c, ErrorResponse("ErrInternalError"))
    /\ UNCHANGED <<n, globalObjectAPI, configVars, healVars, statusVars, lockVars>>
    /\ UNCHANGED <<globalIsEnvCreds, serverCred, peerCred, cuser, cpass, cpending, ccalls, cfailed>>

ServiceCredentialsHandler(c) ==
    \/ CredsBegin(c)
    \/ CredsUpdatePeer(c)
    \/ CredsSetCredential(c)
    \/ CredsSave(c)

\* ---------------------------------------- lock and heal-listing handlers
\* strings.HasPrefix
HasPrefix(str, prefix) ==
    Len(prefix) <= Len(str) /\ SubSeq(str, 1, Len(prefix)) = prefix

\* IsValidObjectPrefix: a prefix with an empty path segment is invalid.
IsValidObjectPrefix(prefix) ==
    ~\E i \in 1..(Len(prefix) - 1) : prefix[i] = "/" /\ prefix[i + 1] = "/"

\* time.ParseDuration on the duration strings of the model.
ParseDuration(str) ==
    IF str = "0s" THEN [duration |-> 0, err |-> Nil]
    ELSE IF str = "1s" THEN [duration |-> 1, err |-> Nil]
    ELSE [duration |-> 0, err |-> "invalid duration"]

\* strconv.Atoi on the max-key strings of the model.
Atoi(str) ==
    IF str = "10" THEN [value |-> 10, err |-> Nil]
    ELSE IF str = "-1" THEN [value |-> 0 - 1, err |-> Nil]
    ELSE [value |-> 0, err |-> "invalid syntax"]

\* validateListObjectsArgs: a negative max-key is rejected.
validateListObjectsArgs(prefix, maxKey) ==
    IF maxKey < 0 THEN "ErrInvalidMaxKeys" ELSE ErrNone

\* validateLockQueryParams: bucket, prefix, duration and the error code.
validateLockQueryParamsNoBucketCheck(bucket, prefix, durationStr) ==
    IF ~IsValidObjectPrefix(prefix)
    THEN [bucket |-> "", prefix |-> <<>>, duration |-> 0, err |-> "ErrInvalidObjectName"]
    ELSE LET parsed == ParseDuration(IF durationStr = "" THEN "0s" ELSE durationStr) IN
         IF parsed.err # Nil
         THEN [bucket |-> "", prefix |-> <<>>, duration |-> 0, err |-> "ErrInvalidDuration"]
         ELSE [bucket |-> bucket, prefix |-> prefix, duration |-> parsed.duration,
               err |-> ErrNone]
validateLockQueryParams(bucket, prefix, durationStr) ==
    IF ~IsValidBucketName(bucket)
    THEN [bucket |-> "", prefix |-> <<>>, duration |-> 0, err |-> "ErrInvalidBucketName"]
    ELSE IF ~IsValidObjectPrefix(prefix)
    THEN [bucket |-> "", prefix |-> <<>>, duration |-> 0, err |-> "ErrInvalidObjectName"]
    ELSE LET parsed == ParseDuration(IF durationStr = "" THEN "0s" ELSE durationStr) IN
         IF parsed.err # Nil
         THEN [bucket |-> "", prefix |-> <<>>, duration |-> 0, err |-> "ErrInvalidDuration"]
         ELSE [bucket |-> bucket, prefix |-> prefix, duration |-> parsed.duration,
               err |-> ErrNone]

\* validateHealQueryParams: the error code.
validateHealQueryParams(bucket, prefix, maxKeyStr) ==
    IF ~IsValidBucketName(bucket) THEN "ErrInvalidBucketName"
    ELSE IF ~IsValidObjectPrefix(prefix) THEN "ErrInvalidObjectName"
    ELSE IF Atoi(maxKeyStr).err # Nil THEN "ErrInvalidMaxKeys"
    ELSE validateListObjectsArgs(prefix, Atoi(maxKeyStr).value)

\* The lock on resource i matches the filter: same bucket, object under the
\* prefix, held for at least the duration.
LockMatches(i, bucket, prefix, duration) ==
    /\ nsLocks[i] # NoLock
    /\ LockResources[i].bucket = bucket
    /\ HasPrefix(LockResources[i].object, prefix)
    /\ now - nsLocks[i].since >= duration

\* listPeerLocksInfo: the matching records of every peer, concatenated in peer
\* order.
listPeerLocksInfo(peers, bucket, prefix, duration) ==
    LET K == Len(LockResources)
        Slot(k) == [peer |-> ((k - 1) \div K) + 1, i |-> ((k - 1) % K) + 1]
        Collect[k \in 0..(Len(peers) * K)] ==
            IF k = 0 THEN <<>>
            ELSE IF /\ LockMatches(Slot(k).i, bucket, prefix, duration)
                    /\ nsLocks[Slot(k).i].source = peers[Slot(k).peer]
                 THEN Append(Collect[k - 1],
                             [bucket |-> LockResources[Slot(k).i].bucket,
                              object |-> LockResources[Slot(k).i].object,
                              id |-> nsLocks[Slot(k).i].id,
                              since |-> nsLocks[Slot(k).i].since,
                              source |-> nsLocks[Slot(k).i].source])
                 ELSE Collect[k - 1]
    IN Collect[Len(peers) * K]

\* The resource a bucket and object name.
ResourceOf(bucket, object) ==
    CHOOSE i \in 1..Len(LockResources) :
        LockResources[i] = [bucket |-> bucket, object |-> object]

\* globalNSMutex.ForceUnlock(bucket, object): whatever lock is held on the
\* named resource is released.
ForceUnlock(bucket, object) ==
    nsLocks' = [nsLocks EXCEPT ![ResourceOf(bucket, object)] = NoLock]

LockRespond(l, response) ==
    /\ lresp' = [lresp EXCEPT ![l] = response]
    /\ lpc' = [lpc EXCEPT ![l] = "done"]

\* A client acquires the lock on a free resource through peer p.
NSLock(i, p) ==
    /\ nsLocks[i] = NoLock
    /\ nextLockID <= MaxLockIDs
    /\ nsLocks' = [nsLocks EXCEPT ![i] = [id |-> nextLockID, since |-> now, source |-> p]]
    /\ nextLockID' = nextLockID + 1
    /\ UNCHANGED <<n, globalObjectAPI, configVars, healVars, statusVars, credsVars>>
    /\ UNCHANGED <<now, lpc, lkind, lbucket, lprefix, lduration, volLocks, lidx, lresp,
                   lqueries, lhealCalls, lforced>>

\* The holder of the lock on resource i releases it.
NSUnlock(i) ==
    /\ nsLocks[i] # NoLock
    /\ nsLocks' = [nsLocks EXCEPT ![i] = NoLock]
    /\ UNCHANGED <<n, globalObjectAPI, configVars, healVars, statusVars, credsVars>>
    /\ UNCHANGED <<nextLockID, now, lpc, lkind, lbucket, lprefix, lduration, volLocks, lidx,
                   lresp, lqueries, lhealCalls, lforced>>

\* Time passes.
Tick ==
    /\ now < MaxTime
    /\ now' = now + 1
    /\ UNCHANGED <<n, globalObjectAPI, configVars, healVars, statusVars, credsVars>>
    /\ UNCHANGED <<nsLocks, nextLockID, lpc, lkind, lbucket, lprefix, lduration, volLocks,
                   lidx, lresp, lqueries, lhealCalls, lforced>>

\* The head of ListLocksHandler and of ClearLocksHandler: the signature check
\* and validateLockQueryParams.
LocksBegin(l) ==
    /\ lpc[l] = "idle"
    /\ \E kind \in {"list", "clear"}, authOK \in BOOLEAN, bucket \in BucketNames,
          prefix \in Prefixes, durationStr \in DurationStrs :
         LET params == validateLockQueryParams(bucket, prefix, durationStr) IN
         /\ lkind' = [lkind EXCEPT ![l] = kind]
         /\ lbucket' = [lbucket EXCEPT ![l] = bucket]
         /\ lprefix' = [lprefix EXCEPT ![l] = prefix]
         /\ lduration' = [lduration EXCEPT ![l] = params.duration]
         /\ IF ~authOK
            THEN LockRespond(l, ErrorResponse("ErrAccessDenied"))
            ELSE IF params.err # ErrNone
            THEN LockRespond(l, ErrorResponse(params.err))
            ELSE /\ lpc' = [lpc EXCEPT ![l] = "listPeerLocksInfo"]
                 /\ lresp' = lresp
    /\ UNCHANGED <<n, globalObjectAPI, configVars, healVars, statusVars, credsVars>>
    /\ UNCHANGED <<nsLocks, nextLockID, now, volLocks, lidx, lqueries, lhealCalls, lforced>>

\* listPeerLocksInfo(globalAdminPeers, bucket, prefix, duration) and
\* json.Marshal(volLocks); ListLocksHandler then answers with the list.
PeerLocksInfo(l) ==
    /\ lpc[l] = "listPeerLocksInfo"
    /\ lqueries' = [lqueries EXCEPT ![l] = @ + n]
    /\ \E ok \in BOOLEAN, marshalOK \in BOOLEAN :
         LET listed == listPeerLocksInfo(globalAdminPeers, lbucket[l], lprefix[l],
                                         lduration[l]) IN
         IF ~ok \/ ~marshalOK
         THEN /\ LockRespond(l, ErrorResponse("ErrInternalError"))
              /\ UNCHANGED <<volLocks, lidx>>
         ELSE /\ volLocks' = [volLocks EXCEPT ![l] = listed]
              /\ lidx' = [lidx EXCEPT ![l] = 1]
              /\ IF lkind[l] = "list"
                 THEN LockRespond(l, [kind |-> "locks", volLocks |-> listed])
                 ELSE /\ lpc' = [lpc EXCEPT ![l] = "ForceUnlock"]
                      /\ lresp' = lresp
    /\ UNCHANGED <<n, globalObjectAPI, configVars, healVars, statusVars, credsVars>>
    /\ UNCHANGED <<nsLocks, nextLockID, now, lkind, lbucket, lprefix, lduration,
                   lhealCalls, lforced>>

\* ClearLocksHandler: one iteration of the loop over volLocks.
ForceUnlockNext(l) ==
    /\ lpc[l] = "ForceUnlock"
    /\ lidx[l] <= Len(volLocks[l])
    /\ LET volLock == volLocks[l][lidx[l]]
           held == nsLocks[ResourceOf(volLock.bucket, volLock.object)] IN
         /\ ForceUnlock(volLock.bucket, volLock.object)
         /\ lforced' = IF held = NoLock THEN lforced
                       ELSE [lforced EXCEPT ![l] = @ \cup {held.id}]
    /\ lidx' = [lidx EXCEPT ![l] = @ + 1]
    /\ UNCHANGED <<n, globalObjectAPI, configVars, healVars, statusVars, credsVars>>
    /\ UNCHANGED <<nextLockID, now, lpc, lkind, lbucket, lprefix, lduration, volLocks,
                   lresp, lqueries, lhealCalls>>

\* ClearLocksHandler: the loop is over, the list of cleared locks is the answer.
ClearLocksRespond(l) ==
    /\ lpc[l] = "ForceUnlock"
    /\ lidx[l] > Len(volLocks[l])
    /\ LockRespond(l, [kind |-> "locks", volLocks |-> volLocks[l]])
    /\ UNCHANGED <<n, globalObjectAPI, configVars, healVars, statusVars, credsVars>>
    /\ UNCHANGED <<nsLocks, nextLockID, now, lkind, lbucket, lprefix, lduration, volLocks,
                   lidx, lqueries, lhealCalls, lforced>>

\* The head of ListObjectsHealHandler: newObjectLayerFn(), the signature check
\* and validateHealQueryParams.
ListObjectsHealBegin(l) ==
    /\ lpc[l] = "idle"
    /\ globalObjLayerMutex = NoHolder
    /\ \E authOK \in BOOLEAN, bucket \in BucketNames, prefix \in Prefixes,
          maxKeyStr \in MaxKeyStrs :
         /\ lkind' = [lkind EXCEPT ![l] = "listObjectsHeal"]
         /\ lbucket' = [lbucket EXCEPT ![l] = bucket]
         /\ lprefix' = [lprefix EXCEPT ![l] = prefix]
         /\ IF globalObjectAPI = NilObjectAPI
            THEN LockRespond(l, ErrorResponse("ErrServerNotInitialized"))
            ELSE IF ~authOK
            THEN LockRespond(l, ErrorResponse("ErrAccessDenied"))
            ELSE IF validateHealQueryParams(bucket, prefix, maxKeyStr) # ErrNone
            THEN LockRespond(l, ErrorResponse(validateHealQueryParams(bucket, prefix, maxKeyStr)))
            ELSE /\ lpc' = [lpc EXCEPT ![l] = "ListObjectsHeal"]
                 /\ lresp' = lresp
    /\ UNCHANGED <<n, globalObjectAPI, configVars, healVars, statusVars, credsVars>>
    /\ UNCHANGED <<nsLocks, nextLockID, now, lduration, volLocks, lidx, lqueries,
                   lhealCalls, lforced>>

\* ListObjectsHealHandler: objLayer.ListObjectsHeal and the response.
ListObjectsHeal(l) ==
    /\ lpc[l] = "ListObjectsHeal"
    /\ lhealCalls' = [lhealCalls EXCEPT ![l] = @ + 1]
    /\ \E ok \in BOOLEAN :
         IF ok
         THEN LockRespond(l, [kind |-> "listObjectsV1", bucket |-> lbucket[l],
                              prefix |-> lprefix[l]])
         ELSE LockRespond(l, ErrorResponse("ErrInternalError"))
    /\ UNCHANGED <<n, globalObjectAPI, configVars, healVars, statusVars, credsVars>>
    /\ UNCHANGED <<nsLocks, nextLockID, now, lkind, lbucket, lprefix, lduration, volLocks,
                   lidx, lqueries, lforced>>

LockHandler(l) ==
    \/ LocksBegin(l)
    \/ PeerLocksInfo(l)
    \/ ForceUnlockNext(l)
    \/ ClearLocksRespond(l)
    \/ ListObjectsHealBegin(l)
    \/ ListObjectsHeal(l)

\* Lock traffic of the cluster's clients.
LockManager ==
    \/ \E i \in 1..Len(LockResources), p \in 1..n : NSLock(i, p)
    \/ \E i \in 1..Len(LockResources) : NSUnlock(i)
    \/ Tick

\* ---------------------------------------------------------- specifications
HealInitCommon ==
    /\ globalObjLayerMutex = NoHolder
    /\ nextEngine = 2
    /\ shutdowns = [e \in EngineIds |-> 0]
    /\ storageInits = 0
    /\ peerReinits = 0
    /\ hpc = [h \in HReqs |-> "idle"]
    /\ hkind = [h \in HReqs |-> "bucket"]
    /\ hvars = [h \in HReqs |-> {}]
    /\ hbucket = [h \in HReqs |-> ""]
    /\ hobject = [h \in HReqs |-> ""]
    /\ hobjLayer = [h \in HReqs |-> NilObjectAPI]
    /\ hnewAPI = [h \in HReqs |-> NilObjectAPI]
    /\ hresp = [h \in HReqs |-> NoResp]
    /\ hcalls = [h \in HReqs |-> <<>>]
    /\ hprev = [h \in HReqs |-> NilObjectAPI]

\* No status, set-credentials or lock request has arrived and no lock is held.
AdminInitCommon ==
    /\ spc = [s \in SReqs |-> "idle"]
    /\ skind = [s \in SReqs |-> "status"]
    /\ uptimeErrs = [s \in SReqs |-> <<>>]
    /\ sresp = [s \in SReqs |-> NoResp]
    /\ serverCred = InitialCred
    /\ savedCred = InitialCred
    /\ peerCred = [p \in PeerIds |-> InitialCred]
    /\ cpc = [c \in CReqs |-> "idle"]
    /\ cuser = [c \in CReqs |-> ""]
    /\ cpass = [c \in CReqs |-> ""]
    /\ cpending = [c \in CReqs |-> {}]
    /\ ccalls = [c \in CReqs |-> 0]
    /\ cresp = [c \in CReqs |-> NoResp]
    /\ cfailed = [c \in CReqs |-> {}]
    /\ csaved = [c \in CReqs |-> "none"]
    /\ nsLocks = [i \in 1..Len(LockResources) |-> NoLock]
    /\ nextLockID = 1
    /\ now = 0
    /\ lpc = [l \in LReqs |-> "idle"]
    /\ lkind = [l \in LReqs |-> "list"]
    /\ lbucket = [l \in LReqs |-> ""]
    /\ lprefix = [l \in LReqs |-> <<>>]
    /\ lduration = [l \in LReqs |-> 0]
    /\ volLocks = [l \in LReqs |-> <<>>]
    /\ lidx = [l \in LReqs |-> 1]
    /\ lresp = [l \in LReqs |-> NoResp]
    /\ lqueries = [l \in LReqs |-> 0]
    /\ lhealCalls = [l \in LReqs |-> 0]
    /\ lforced = [l \in LReqs |-> {}]

\* No set-config request has arrived: every peer holds the start-up document.
ConfigInitCommon ==
    /\ files = [p \in PeerIds |-> [f \in FileNames |->
                   IF f = ConfigFile THEN InitialDoc ELSE NoFile]]
    /\ configLock = NoHolder
    /\ nextUUID = 1
    /\ pc = [r \in Reqs |-> "idle"]
    /\ configBytes = [r \in Reqs |-> InitialDoc]
    /\ tmpFileName = [r \in Reqs |-> 1]
    /\ errs = [r \in Reqs |-> <<>>]
    /\ pending = [r \in Reqs |-> {}]
    /\ resp = [r \in Reqs |-> NoResp]
    /\ calls = [r \in Reqs |-> NoCalls]
    /\ stagedAt = [r \in Reqs |-> {}]
    /\ committedAt = [r \in Reqs |-> {}]
    /\ lastLock = NoHolder
    /\ restartPending = {}
    /\ restarts = [p \in PeerIds |-> 0]
    /\ rpc = [x \in RReqs |-> "idle"]
    /\ rresp = [x \in RReqs |-> NoResp]
    /\ rcalls = [x \in RReqs |-> 0]

InitCommon ==
    /\ globalObjectAPI \in {NilObjectAPI, 1}
    /\ globalIsXL = TRUE
    /\ bucketState = [b \in BucketNames \ {""} |-> "ok"]
    /\ objectState = [o \in ObjectNames \ {""} |-> "ok"]
    /\ formatState = "ok"
    /\ HealInitCommon
    /\ ConfigInitCommon
    /\ globalIsEnvCreds = FALSE
    /\ AdminInitCommon

\* Concurrent set-config requests on a small cluster.
Init ==
    /\ n \in 1..MaxConcPeers
    /\ active = Reqs
    /\ InitCommon

\* One set-config request on clusters of every size up to MaxPeers.
QuorumInit ==
    /\ n \in 1..MaxPeers
    /\ active = {1}
    /\ InitCommon

Next == \E r \in Reqs : SetConfigHandler(r)

Spec == Init /\ [][Next]_vars

QuorumSpec == QuorumInit /\ [][Next]_vars

\* Every request in flight keeps being scheduled.
FairSpec == Init /\ [][Next]_vars /\ \A r \in Reqs : WF_vars(SetConfigHandler(r))

\* One set-config request and concurrent restart requests, with the peers
\* restarting on their own schedule.
RestartInit ==
    /\ n \in 1..MaxConcPeers
    /\ active = {1}
    /\ InitCommon

RestartNext ==
    \/ \E r \in Reqs : SetConfigHandler(r)
    \/ \E x \in RReqs : ServiceRestartHandler(x)
    \/ \E p \in 1..n : PeerRestart(p)

RestartSpec == RestartInit /\ [][RestartNext]_vars

\* Concurrent heal requests against disks in any state of repair.
HealInit ==
    /\ n = MaxConcPeers
    /\ active = {}
    /\ globalObjectAPI \in {NilObjectAPI, 1}
    /\ globalIsXL \in BOOLEAN
    /\ bucketState \in [BucketNames \ {""} -> {"missing", "damaged", "ok"}]
    /\ objectState \in [ObjectNames \ {""} -> {"missing", "damaged", "ok"}]
    /\ formatState \in {"damaged", "ok"}
    /\ HealInitCommon
    /\ ConfigInitCommon
    /\ globalIsEnvCreds = FALSE
    /\ AdminInitCommon

HealNext == \E h \in HReqs : HealHandler(h)

\* Status and server-info requests next to one set-config request.
StatusInit ==
    /\ n \in 1..MaxConcPeers
    /\ active = {1}
    /\ InitCommon

StatusNext ==
    \/ \E r \in Reqs : SetConfigHandler(r)
    \/ \E s \in SReqs : StatusHandler(s)

StatusSpec == StatusInit /\ [][StatusNext]_vars

\* One set-config request and one heal request on a single node, with the
\* engine initialised or not and the backend erasure-coded or not.
PrecondInit ==
    /\ n = 1
    /\ active = {1}
    /\ globalObjectAPI \in {NilObjectAPI, 1}
    /\ globalIsXL \in BOOLEAN
    /\ bucketState \in [BucketNames \ {""} -> {"missing", "damaged", "ok"}]
    /\ objectState \in [ObjectNames \ {""} -> {"missing", "damaged", "ok"}]
    /\ formatState \in {"damaged", "ok"}
    /\ HealInitCommon
    /\ ConfigInitCommon
    /\ globalIsEnvCreds = FALSE
    /\ AdminInitCommon

PrecondNext ==
    \/ \E r \in Reqs : SetConfigHandler(r)
    \/ HealHandler(1)

PrecondSpec == PrecondInit /\ [][PrecondNext]_vars

\* Concurrent set-credentials requests, with the credentials passed by the
\* environment or not.
CredsInit ==
    /\ n \in 1..MaxConcPeers
    /\ active = {}
    /\ globalObjectAPI \in {NilObjectAPI, 1}
    /\ globalIsXL = TRUE
    /\ bucketState = [b \in BucketNames \ {""} |-> "ok"]
    /\ objectState = [o \in ObjectNames \ {""} |-> "ok"]
    /\ formatState = "ok"
    /\ HealInitCommon
    /\ ConfigInitCommon
    /\ globalIsEnvCreds \in BOOLEAN
    /\ AdminInitCommon

\* Lock and heal-listing requests while clients acquire and release locks.
LockInit ==
    /\ n = MaxLockPeers
    /\ active = {}
    /\ InitCommon

LockNext ==
    \/ \E l \in LReqs : LockHandler(l)
    \/ LockManager

LockSpec == LockInit /\ [][LockNext]_vars

CredsNext == \E c \in CReqs : ServiceCredentialsHandler(c)

CredsSpec == CredsInit /\ [][CredsNext]_vars

HealSpec == HealInit /\ [][HealNext]_vars

\* ------------------------------------------------------------- properties
\* The staging (commit) fan-out of request r has returned from every peer.
StagingReturned(r) == pc[r] # "idle" /\ \A p \in 1..n : calls[r].write[p] >= 1
CommitReturned(r) == \A p \in 1..n : calls[r].commit[p] >= 1
\* floor(N/2)+1, computed from the peer count.
Majority == (n \div 2) + 1
StagedInQuorum(r) == Cardinality(stagedAt[r]) >= Majority
CommittedInQuorum(r) == Cardinality(committedAt[r]) >= Majority
\* Requests between acquiring the config lock and returning.
InCommitSection == {r \in Reqs : pc[r] \in {"committing", "restart"}}
IsResult(r) == resp[r].kind = "setConfigResult"

\* C1: if fewer than floor(N/2)+1 peers staged the temporary config without
\* error, then no commit call is issued to any peer, the config lock is never
\* acquired, no restart signal is sent, and the response has status=false with
\* exactly N nodeResults in peer order, errSet=true exactly where staging failed.
C1_StagingFailureStops ==
    \A r \in Reqs :
        (StagingReturned(r) /\ ~StagedInQuorum(r)) =>
            /\ pc[r] \in {"staging", "done"}
            /\ \A p \in PeerIds : calls[r].commit[p] = 0
            /\ configLock # r
            /\ calls[r].restart = 0
            /\ pc[r] = "done" =>
                 /\ IsResult(r)
                 /\ resp[r].status = FALSE
                 /\ Len(resp[r].nodeResults) = n
                 /\ \A i \in 1..n :
                      /\ resp[r].nodeResults[i].name = globalAdminPeers[i]
                      /\ resp[r].nodeResults[i].errSet = (i \notin stagedAt[r])

C1_Witness ==
    \E r \in Reqs :
        /\ pc[r] = "done" /\ IsResult(r) /\ StagingReturned(r)
        /\ n = 3 /\ stagedAt[r] = {2}

\* C2: the handler reports status=true if and only if at least floor(N/2)+1
\* peers staged without error and at least floor(N/2)+1 peers committed
\* without error.
C2_StatusIffBothQuorums ==
    \A r \in Reqs :
        IsResult(r) => (resp[r].status = (StagedInQuorum(r) /\ CommittedInQuorum(r)))

\* N=5: exactly 3 peers staged and committed, 2 failed, and the request succeeded.
C2_Witness ==
    \E r \in Reqs :
        /\ n = 5 /\ IsResult(r) /\ resp[r].status = TRUE
        /\ Cardinality(stagedAt[r]) = 3 /\ Cardinality(committedAt[r]) = 3

\* C3: at most one request at a time is between acquiring the config lock and
\* returning, and every commit call is issued by the request that holds the lock.
C3_CommitUnderLock ==
    /\ [](Cardinality(InCommitSection) <= 1)
    /\ [][\A r \in Reqs : \A p \in PeerIds :
             calls'[r].commit[p] # calls[r].commit[p] => (configLock = r /\ configLock' = r)]_vars

\* One request is committing under the lock while the other waits for it.
C3_Witness ==
    \E r1 \in Reqs, r2 \in Reqs :
        /\ r1 # r2
        /\ pc[r1] = "committing" /\ configLock = r1
        /\ \E p \in 1..n : calls[r1].commit[p] = 1
        /\ pc[r2] = "locking"

\* C4: a request that acquired the config lock has released it once it has
\* returned, on the failure and the success path alike, and under fair
\* scheduling a request waiting for the lock eventually acquires it.
C4_LockReleased ==
    /\ [](\A r \in Reqs : pc[r] = "done" => configLock # r)
    /\ \A r \in Reqs : (pc[r] = "locking") ~> (configLock = r)

\* A request holds the lock after another one acquired it and returned on the
\* commit-quorum failure path.
C4_Witness ==
    \E r1 \in Reqs, r2 \in Reqs :
        /\ r1 # r2
        /\ pc[r1] = "done" /\ IsResult(r1) /\ StagedInQuorum(r1) /\ resp[r1].status = FALSE
        /\ configLock = r2

\* C5: the restart signal is sent at most once, only by a request whose own
\* staging and commit quorum checks both succeeded, and a request that
\* reported failure has sent none.
C5_RestartOnlyAfterBothQuorums ==
    \A r \in Reqs :
        /\ calls[r].restart <= 1
        /\ calls[r].restart > 0 =>
             /\ StagedInQuorum(r) /\ CommittedInQuorum(r)
             /\ StagingReturned(r) /\ CommitReturned(r)
        /\ (pc[r] = "done" /\ ~(StagedInQuorum(r) /\ CommittedInQuorum(r))) =>
             calls[r].restart = 0

C5_Witness ==
    \E r1 \in Reqs, r2 \in Reqs :
        /\ r1 # r2
        /\ calls[r1].restart = 1
        /\ pc[r2] = "done" /\ CommitReturned(r2) /\ ~CommittedInQuorum(r2)

\* C6: when staging reached quorum but the commit did not, the handler
\* returns status=false with N nodeResults whose errSet flags are the
\* commit-phase errors, has called every peer exactly once per phase and sent
\* no restart, and every peer that promoted the staged file holds the new
\* configuration while the others keep the old one.
C6_CommitFailureReported ==
    \A r \in Reqs :
        (pc[r] = "done" /\ StagedInQuorum(r) /\ CommitReturned(r) /\ ~CommittedInQuorum(r)) =>
            /\ IsResult(r)
            /\ resp[r].status = FALSE
            /\ Len(resp[r].nodeResults) = n
            /\ \A i \in 1..n :
                 /\ resp[r].nodeResults[i].errSet = (i \notin committedAt[r])
                 /\ calls[r].write[i] = 1
                 /\ calls[r].commit[i] = 1
                 /\ config(i) = IF i \in committedAt[r] THEN configBytes[r] ELSE InitialDoc
            /\ calls[r].restart = 0

\* Split brain: one peer of three promoted the new configuration, two did not.
C6_Witness ==
    \E r \in Reqs :
        /\ n = 3 /\ pc[r] = "done" /\ StagedInQuorum(r) /\ CommitReturned(r)
        /\ Cardinality(committedAt[r]) = 1

\* C7: with N=3 and the third peer (index 2 of the code) unreachable during
\* staging while the other two succeed in both phases, the staging check
\* passes, the commit phase runs, status is true, and nodeResults marks the two
\* reachable peers ok and the unreachable one failed with its error message.
C7_OnePeerDownScenario ==
    \A r \in Reqs :
        (/\ n = 3 /\ pc[r] = "done" /\ StagingReturned(r) /\ stagedAt[r] = {1, 2}
         /\ (CommitReturned(r) => {1, 2} \subseteq committedAt[r])) =>
            /\ CommitReturned(r)
            /\ IsResult(r)
            /\ resp[r].status = TRUE
            /\ Len(resp[r].nodeResults) = 3
            /\ ~resp[r].nodeResults[1].errSet /\ resp[r].nodeResults[1].errMsg = "<nil>"
            /\ ~resp[r].nodeResults[2].errSet /\ resp[r].nodeResults[2].errMsg = "<nil>"
            /\ resp[r].nodeResults[3].errSet
            /\ resp[r].nodeResults[3].errMsg \in {errTimeout, errFileNotFound}

C7_Witness ==
    \E r \in Reqs :
        /\ n = 3 /\ pc[r] = "done" /\ stagedAt[r] = {1, 2} /\ committedAt[r] = {1, 2}
        /\ IsResult(r) /\ resp[r].nodeResults[3].errMsg = errTimeout

\* C8: a peer's canonical configuration changes only through the commit step
\* of a request whose staging quorum check succeeded, to that request's bytes;
\* no staging call changes any peer's canonical configuration.
C8_StagedNeverVisible ==
    /\ [][\A p \in PeerIds :
            config(p)' # config(p) =>
                \E r \in Reqs :
                    /\ pc[r] = "committing"
                    /\ StagingReturned(r) /\ StagedInQuorum(r)
                    /\ calls'[r].commit[p] = calls[r].commit[p] + 1
                    /\ config(p)' = configBytes[r]]_vars
    /\ [][(\E r \in Reqs : calls'[r].write # calls[r].write) =>
            \A p \in PeerIds : config(p)' = config(p)]_vars

\* A request staged its document on a peer and failed, and the peer's readers
\* see another request's committed document.
C8_Witness ==
    \E r1 \in Reqs, r2 \in Reqs, p \in 1..n :
        /\ r1 # r2
        /\ p \in stagedAt[r1] /\ pc[r1] = "done" /\ committedAt[r1] = {}
        /\ p \in committedAt[r2] /\ config(p) = configBytes[r2]
        /\ configBytes[r1] # configBytes[r2]

\* The most recent commit phase, if there was one, succeeded on every peer.
LastCommitSucceededEverywhere ==
    lastLock # NoHolder => committedAt[lastLock] = 1..n

MutatingOps == {"HealBucket", "HealObject", "initStorageDisks", "healFormatXL",
                "newXLObjects", "Lock", "assign", "Unlock", "Shutdown", "reInitPeerDisks"}

\* What the validation of a heal request of this kind and target answers in
\* the current state (the signature check apart).
ValidationOutcome(kind, bucket, object) ==
    IF globalObjectAPI = NilObjectAPI THEN "ErrServerNotInitialized"
    ELSE IF kind = "bucket" THEN checkBucketExist(bucket)
    ELSE IF kind = "object"
    THEN IF checkBucketAndObjectNames(bucket, object) # ErrNone
         THEN checkBucketAndObjectNames(bucket, object)
         ELSE GetObjectInfo(bucket, object)
    ELSE IF ~globalIsXL THEN "ErrNotImplemented"
    ELSE ErrNone

\* C10: a step of a heal request that carries the dry-run flag changes neither
\* the disks, the current engine handle, the engine instances nor the peers,
\* the request never invokes HealBucket, HealObject, a storage
\* re-initialisation, a format heal, an engine swap, a shutdown or a peer
\* re-initialisation, and the validation outcome of every heal target is the
\* same after the step as before it.
C10_DryRunMutatesNothing ==
    [][\A h \in HReqs :
         (hpc'[h] # hpc[h] /\ mgmtDryRun \in hvars'[h]) =>
            /\ UNCHANGED <<globalObjectAPI, globalObjLayerMutex, nextEngine, shutdowns,
                           bucketState, objectState, formatState, storageInits, peerReinits>>
            /\ \A i \in 1..Len(hcalls'[h]) : hcalls'[h][i] \notin MutatingOps
            /\ \A k \in {"bucket", "object", "format"}, b \in BucketNames, o \in ObjectNames :
                 ValidationOutcome(k, b, o)' = ValidationOutcome(k, b, o)]_vars

\* A dry-run object heal of a damaged object succeeded, the object is still
\* damaged, and a later heal of the same object without the flag is about to
\* call HealObject.
C10_Witness ==
    \E h1 \in HReqs, h2 \in HReqs :
        /\ h1 # h2
        /\ hkind[h1] = "object" /\ mgmtDryRun \in hvars[h1]
        /\ hpc[h1] = "done" /\ hresp[h1] = SuccessResponse
        /\ hkind[h2] = "object" /\ mgmtDryRun \notin hvars[h2]
        /\ hbucket[h2] = hbucket[h1] /\ hobject[h2] = hobject[h1]
        /\ objectState[hobject[h1]] = "damaged"
        /\ hpc[h2] = "healObject"

\* The operations of HealFormatHandler from the swap on.
SwapOps == {"Lock", "assign", "Unlock", "Shutdown", "reInitPeerDisks"}
\* The operations request h has invoked so far.
Invoked(h) == {hcalls[h][i] : i \in 1..Len(hcalls[h])}

\* C11: when initStorageDisks, healFormatXL or newXLObjects fails in
\* HealFormatHandler, the request returns an error at that step, the step leaves
\* the current engine handle, the shutdown count of every engine instance, the
\* engine-handle lock and the peers as they were, and the request never takes
\* the handle lock, assigns the handle, shuts an engine down or tells the peers
\* to re-initialise their disks.
C11_FormatFailureAborts ==
    /\ [](\A h \in HReqs :
            "failed" \in Invoked(h) =>
                /\ hkind[h] = "format"
                /\ hpc[h] = "done"
                /\ hresp[h].kind = "error"
                /\ hcalls[h][Len(hcalls[h])] = "failed"
                /\ Invoked(h) \cap SwapOps = {})
    /\ [][\A h \in HReqs :
            ("failed" \notin Invoked(h) /\ "failed" \in Invoked(h)') =>
                UNCHANGED <<globalObjectAPI, shutdowns, peerReinits, globalObjLayerMutex>>]_vars

\* Storage re-initialisation and the format heal succeeded, the construction
\* of the new engine failed, and the engine of start-up is still current.
C11_Witness ==
    \E h \in HReqs :
        /\ hcalls[h] = <<"initStorageDisks", "healFormatXL", "newXLObjects", "failed">>
        /\ hpc[h] = "done" /\ hresp[h].kind = "error"
        /\ globalObjectAPI = 1 /\ shutdowns[1] = 0 /\ peerReinits = 0

\* C12: under every interleaving of format heals and requests that read the
\* current engine handle, the current handle is never an engine instance that
\* has been shut down nor one whose construction has not completed, and every
\* read of the handle returns the current handle, taken while no writer holds
\* the handle lock.
C12_SwapAtomicForReaders ==
    /\ [](globalObjectAPI # NilObjectAPI =>
            /\ shutdowns[globalObjectAPI] = 0
            /\ globalObjectAPI < nextEngine)
    /\ [][\A h \in HReqs :
            (hpc[h] = "idle" /\ hpc'[h] # "idle") =>
                /\ hobjLayer'[h] = globalObjectAPI
                /\ globalObjLayerMutex = NoHolder
                /\ hobjLayer'[h] # NilObjectAPI =>
                     /\ shutdowns[hobjLayer'[h]] = 0
                     /\ hobjLayer'[h] < nextEngine]_vars

\* A request read the handle after a format heal swapped it and shut the
\* previous instance down: it holds the new instance.
C12_Witness ==
    \E h1 \in HReqs, h2 \in HReqs :
        /\ h1 # h2
        /\ hkind[h1] = "format" /\ "Shutdown" \in Invoked(h1)
        /\ shutdowns[hobjLayer[h1]] = 1
        /\ hpc[h2] # "idle"
        /\ hobjLayer[h2] = hnewAPI[h1]
        /\ hobjLayer[h2] # NilObjectAPI

\* C13: in HealObjectHandler, invalid names are answered with the name error
\* and a failed GetObjectInfo lookup with the lookup's error (not-found for a
\* missing object), in both cases without a HealObject call; HealObject is
\* invoked only after a lookup that succeeded and only by a request without
\* the dry-run flag.
C13_HealObjectOnlyAfterLookup ==
    /\ [](\A h \in HReqs :
            "HealObject" \in Invoked(h) =>
                /\ hkind[h] = "object"
                /\ hcalls[h] = <<"GetObjectInfo", "HealObject">>
                /\ mgmtDryRun \notin hvars[h]
                /\ hbucket[h] # "" /\ hobject[h] # ""
                /\ bucketState[hbucket[h]] # "missing"
                /\ objectState[hobject[h]] # "missing")
    /\ [][\A h \in HReqs :
            /\ (hpc[h] = "idle" /\ hpc'[h] # "idle" /\ hkind'[h] = "object"
                  /\ (hbucket'[h] = "" \/ hobject'[h] = "")) =>
                 /\ hpc'[h] = "done" /\ hcalls'[h] = <<>>
                 /\ hresp'[h].kind = "error"
                 /\ hresp'[h].code \in
                      {"ErrServerNotInitialized", "ErrAccessDenied",
                       IF hbucket'[h] = "" THEN "ErrInvalidBucketName" ELSE "ErrInvalidObjectName"}
            /\ (hpc[h] = "getObjectInfo" /\ hpc'[h] # hpc[h]
                  /\ (bucketState[hbucket[h]] = "missing" \/ objectState[hobject[h]] = "missing")) =>
                 /\ hpc'[h] = "done" /\ hcalls'[h] = <<"GetObjectInfo">>
                 /\ hresp'[h] = ErrorResponse(IF bucketState[hbucket[h]] = "missing"
                                              THEN "ErrNoSuchBucket" ELSE "ErrNoSuchKey")]_vars

\* The lookup of a missing object in an existing bucket was answered with
\* not-found after the one engine call GetObjectInfo.
C13_Witness ==
    \E h1 \in HReqs :
        /\ hkind[h1] = "object" /\ hpc[h1] = "done"
        /\ hbucket[h1] = "b1" /\ hobject[h1] = "o1"
        /\ bucketState["b1"] # "missing" /\ objectState["o1"] = "missing"
        /\ hresp[h1] = ErrorResponse("ErrNoSuchKey")
        /\ hcalls[h1] = <<"GetObjectInfo">>

\* The operations of a complete format heal, in the order of the handler.
FormatSteps == <<"initStorageDisks", "healFormatXL", "newXLObjects", "Lock",
                 "assign", "Unlock", "Shutdown", "reInitPeerDisks">>
IsPrefix(s, t) == Len(s) <= Len(t) /\ SubSeq(t, 1, Len(s)) = s

\* C20: a successful HealFormatHandler request without the dry-run flag has
\* performed, in this order, initStorageDisks, healFormatXL, newXLObjects, the
\* handle swap under the lock, the shutdown of the old engine and
\* reInitPeerDisks; a request holds the engine-handle lock exactly between its
\* Lock and its Unlock, where the only work is the handle assignment, and its
\* steps that re-initialise storage, heal the format, construct or shut down an
\* engine or notify the peers run without it holding the lock; the current
\* handle changes only under the lock.
C20_FormatStepOrder ==
    /\ [](\A h \in HReqs :
            /\ (hkind[h] = "format" /\ hpc[h] = "done" /\ hresp[h] = SuccessResponse
                  /\ mgmtDryRun \notin hvars[h]) => hcalls[h] = FormatSteps
            /\ (hkind[h] = "format" /\ "failed" \notin Invoked(h)) =>
                 IsPrefix(hcalls[h], FormatSteps)
            /\ (globalObjLayerMutex = h) = ("Lock" \in Invoked(h) /\ "Unlock" \notin Invoked(h))
            /\ globalObjLayerMutex = h => hpc[h] \in {"assign", "unlock"})
    /\ [][\A h \in HReqs :
            /\ (hpc'[h] # hpc[h]
                  /\ ~UNCHANGED <<storageInits, formatState, nextEngine, shutdowns, peerReinits>>) =>
                 (globalObjLayerMutex # h /\ globalObjLayerMutex' # h)
            /\ (hpc'[h] # hpc[h] /\ globalObjectAPI' # globalObjectAPI) =>
                 (globalObjLayerMutex = h /\ globalObjLayerMutex' = h)]_vars

\* One format heal has completed all its steps while another one holds the
\* handle lock for its own assignment.
C20_Witness ==
    \E h1 \in HReqs, h2 \in HReqs :
        /\ h1 # h2
        /\ hpc[h1] = "done" /\ hresp[h1] = SuccessResponse /\ hcalls[h1] = FormatSteps
        /\ globalObjLayerMutex = h2 /\ hpc[h2] = "unlock"

\* The uptime read of request s has returned.
UptimeRead(s) == Len(uptimeErrs[s]) = n
UptimeInQuorum(s) == Cardinality({i \in 1..n : uptimeErrs[s][i] = Nil}) >= Majority
IsBody(response) == response.kind \in {"serverStatus", "serverInfo"}

\* C16: when fewer than floor(N/2)+1 peers answer the uptime read of
\* ServiceStatusHandler or ServerInfoHandler, the request ends with an error
\* response that carries no version, uptime, storage or connection fields, and
\* a status or server-info body is returned only after an uptime read that
\* reached quorum.
C16_UptimeQuorumOrError ==
    \A s \in SReqs :
        /\ (UptimeRead(s) /\ ~UptimeInQuorum(s)) =>
             /\ spc[s] = "done"
             /\ sresp[s].kind = "error"
             /\ DOMAIN sresp[s] = {"kind", "code"}
        /\ IsBody(sresp[s]) => (UptimeRead(s) /\ UptimeInQuorum(s))

\* On three peers one server-info request got one uptime answer and failed,
\* and one service-status request got two and returned its body.
C16_Witness ==
    \E s1 \in SReqs, s2 \in SReqs :
        /\ n = 3
        /\ skind[s1] = "info" /\ UptimeRead(s1) /\ sresp[s1].kind = "error"
        /\ Cardinality({i \in 1..n : uptimeErrs[s1][i] = Nil}) = 1
        /\ skind[s2] = "status" /\ UptimeRead(s2) /\ sresp[s2].kind = "serverStatus"
        /\ Cardinality({i \in 1..n : uptimeErrs[s2][i] = Nil}) = 2

\* The outcomes that tell the caller that a quorum was missed.
NoQuorumStatus(response) == response = ErrorResponse("ErrReadQuorum")
NoQuorumResult(response) == response.kind = "setConfigResult" /\ response.status = FALSE
\* The staging or the commit fan-out of request r fell short of a majority.
ConfigQuorumMissed(r) ==
    \/ StagingReturned(r) /\ ~StagedInQuorum(r)
    \/ StagingReturned(r) /\ StagedInQuorum(r) /\ CommitReturned(r) /\ ~CommittedInQuorum(r)

InvalidKeys(c) == Len(cuser[c]) < 5 \/ Len(cpass[c]) < 8

\* C18: when the credentials were passed by the environment, or the submitted
\* ones fail validation, a set-credentials request ends with an error without
\* having asked any peer to update credentials, and the step that rejects a
\* request leaves the credential in memory, the saved credential and every
\* peer's credential as they were; with credentials passed by the environment
\* none of them ever changes.
C18_PinnedOrInvalidRejected ==
    /\ [](\A c \in CReqs :
            (cpc[c] # "idle" /\ (globalIsEnvCreds \/ InvalidKeys(c))) =>
                /\ cpc[c] = "done"
                /\ cresp[c].kind = "error"
                /\ ccalls[c] = 0)
    /\ [](globalIsEnvCreds =>
            /\ serverCred = InitialCred /\ savedCred = InitialCred
            /\ \A p \in PeerIds : peerCred[p] = InitialCred
            /\ \A c \in CReqs : cpc[c] = "done" =>
                 cresp[c].code \in {"ErrAccessDenied", "ErrMethodNotAllowed"})
    /\ [][\A c \in CReqs :
            (cpc[c] = "idle" /\ cpc'[c] = "done") =>
                (UNCHANGED <<serverCred, savedCred, peerCred>> /\ ccalls'[c] = 0)]_vars

\* With credentials passed by the environment, a request carrying valid keys
\* was answered method-not-allowed.
C18_Witness ==
    \E c \in CReqs :
        /\ globalIsEnvCreds
        /\ cpc[c] = "done" /\ ~InvalidKeys(c)
        /\ cresp[c] = ErrorResponse("ErrMethodNotAllowed")
        /\ serverCred = InitialCred

\* The state of the disks, the engine, the peers and the configuration that a
\* rejected request must leave alone.
ClusterState == <<globalObjectAPI, globalObjLayerMutex, nextEngine, shutdowns, bucketState,
                  objectState, formatState, storageInits, peerReinits, files, configLock>>

\* C19: on a backend that is not erasure-coded a heal-format request, with or
\* without the dry-run flag, ends with an error (not-implemented once the
\* engine and signature checks have passed) without invoking any operation;
\* a heal request that reads a nil engine handle and a set-config request on an
\* uninitialised server end with server-not-initialized without any engine or
\* peer call; and the step that rejects a request changes nothing of the
\* disks, the engine, the peers or the configuration.
C19_PreconditionsFirst ==
    /\ [](\A h \in HReqs :
            /\ (hpc[h] # "idle" /\ hkind[h] = "format" /\ ~globalIsXL) =>
                 /\ hpc[h] = "done" /\ hcalls[h] = <<>>
                 /\ hresp[h].kind = "error"
                 /\ hresp[h].code \in {"ErrServerNotInitialized", "ErrAccessDenied",
                                       "ErrNotImplemented"}
            /\ (hpc[h] # "idle" /\ hobjLayer[h] = NilObjectAPI) =>
                 /\ hpc[h] = "done" /\ hcalls[h] = <<>>
                 /\ hresp[h] = ErrorResponse("ErrServerNotInitialized"))
    /\ [](\A r \in Reqs :
            (pc[r] # "idle" /\ globalObjectAPI = NilObjectAPI) =>
                /\ pc[r] = "done"
                /\ resp[r] = ErrorResponse("ErrServerNotInitialized")
                /\ calls[r] = NoCalls /\ stagedAt[r] = {} /\ committedAt[r] = {})
    /\ [][/\ \A h \in HReqs :
               (hpc[h] = "idle" /\ hpc'[h] = "done" /\ hresp'[h].kind = "error") =>
                   UNCHANGED ClusterState
          /\ \A r \in Reqs :
               (pc[r] = "idle" /\ pc'[r] = "done") => UNCHANGED ClusterState]_vars

\* On an initialised backend that is not erasure-coded, a heal-format request
\* carrying the dry-run flag was answered not-implemented.
C19_Witness ==
    \E h \in HReqs :
        /\ ~globalIsXL /\ globalObjectAPI # NilObjectAPI
        /\ hkind[h] = "format" /\ mgmtDryRun \in hvars[h]
        /\ hpc[h] = "done" /\ hresp[h] = ErrorResponse("ErrNotImplemented")
        /\ formatState = "damaged" /\ storageInits = 0

\* The ids of the lock records in request l's listing.
SnapshotIds(l) == {volLocks[l][i].id : i \in 1..Len(volLocks[l])}

\* C14: a list-locks, clear-locks or list-objects-heal request with an empty
\* bucket name ends with an error (invalid-bucket-name once the engine and
\* signature checks have passed) without having queried any peer for locks,
\* force-released any lock or called the engine's heal listing, and the step
\* that rejects it leaves every lock as it was.
C14_InvalidBucketRejected ==
    /\ [](\A l \in LReqs :
            (lpc[l] # "idle" /\ lbucket[l] = "") =>
                /\ lpc[l] = "done"
                /\ lresp[l].kind = "error"
                /\ lresp[l].code \in
                     (IF lkind[l] = "listObjectsHeal"
                      THEN {"ErrServerNotInitialized", "ErrAccessDenied", "ErrInvalidBucketName"}
                      ELSE {"ErrAccessDenied", "ErrInvalidBucketName"})
                /\ lqueries[l] = 0 /\ lhealCalls[l] = 0
                /\ lforced[l] = {} /\ volLocks[l] = <<>>)
    /\ [][\A l \in LReqs :
            (lpc[l] = "idle" /\ lpc'[l] # "idle" /\ lbucket'[l] = "") =>
                nsLocks' = nsLocks]_vars

\* While a lock is held on a resource of bucket b1, a clear-locks request with
\* an empty bucket name and a list-objects-heal request with an empty bucket
\* name were both answered invalid-bucket-name.
C14_Witness ==
    \E l1 \in LReqs, l2 \in LReqs :
        /\ lkind[l1] = "clear" /\ lbucket[l1] = ""
        /\ lresp[l1] = ErrorResponse("ErrInvalidBucketName")
        /\ lkind[l2] = "listObjectsHeal" /\ lbucket[l2] = ""
        /\ lresp[l2] = ErrorResponse("ErrInvalidBucketName")
        /\ \E i \in 1..Len(LockResources) : nsLocks[i] # NoLock

\* C15: a clear-locks request releases only lock records that its own listing
\* returned: no lock acquired after the listing is released by it.
C15_ClearOnlySnapshot ==
    \A l \in LReqs : lforced[l] \subseteq SnapshotIds(l)

\* ------------------------------------------- C21: which instance is shut down
\* Request h takes its Shutdown step.
ShutdownStep(h) == hpc[h] = "shutdown" /\ hpc'[h] # "shutdown"

\* C21: the instance a format heal shuts down is the one that was the current
\* handle immediately before that request's own assignment of the new handle.
C21_ShutsPreviousHandle ==
    [][\A h \in HReqs, e \in EngineIds :
         (ShutdownStep(h) /\ shutdowns'[e] > shutdowns[e]) => e = hprev[h]]_vars

\* ------------------------------------- C25: every replaced instance shut once
\* A format heal is between its entry and its return.
FormatInFlight(h) == hkind[h] = "format" /\ hpc[h] \notin {"idle", "done"}

\* The instances that were the current handle and have been replaced.
Replaced == {hprev[h] : h \in {g \in HReqs : hprev[g] # NilObjectAPI}}

\* C25: no instance is shut down more than once, and once no format heal is
\* in flight every instance that was replaced as the current handle has been
\* shut down.
C25_ReplacedShutExactlyOnce ==
    /\ \A e \in EngineIds : shutdowns[e] <= 1
    /\ (\A h \in HReqs : ~FormatInFlight(h)) => \A e \in Replaced : shutdowns[e] >= 1

\* ------------------------------------ C24: no engine call after its shutdown
\* The engine operations of the claim that the heal handlers invoke on their
\* local handle.
EngineOps == {"HealBucket", "GetObjectInfo", "HealObject"}

\* Request h invokes an engine operation in this step.
InvokesEngine(h) ==
    /\ Len(hcalls'[h]) > Len(hcalls[h])
    /\ hcalls'[h][Len(hcalls'[h])] \in EngineOps

\* C24: no handler invokes an engine operation on an instance that has
\* already been shut down.
C24_NoUseAfterShutdown ==
    [][\A h \in HReqs : InvokesEngine(h) => shutdowns[hobjLayer[h]] = 0]_vars

\* ------------------------------- C23: status=true means a quorum holds it
\* The peers whose canonical configuration is exactly the bytes of request r.
HoldersOf(r) == {p \in 1..n : config(p) = configBytes[r]}

\* Request r's response is written in this step and says status=true.
ReturnsTrue(r) ==
    /\ resp[r] = NoResp
    /\ resp'[r] # NoResp
    /\ resp'[r].kind = "setConfigResult"
    /\ resp'[r].status

\* C23: at the moment a request answers status=true, and until its handler
\* returns, at least floor(N/2)+1 peers hold exactly the bytes it submitted as
\* their canonical configuration, whatever other requests do meanwhile.
C23_TrueMeansQuorumHolds ==
    /\ [][\A r \in Reqs : ReturnsTrue(r) => Cardinality(HoldersOf(r)) >= n \div 2 + 1]_vars
    /\ [](\A r \in Reqs : pc[r] = "restart" => Cardinality(HoldersOf(r)) >= n \div 2 + 1)

\* Two requests with different documents ran concurrently, both staged in
\* quorum, and one of them has answered status=true while the other is still
\* in flight.
C23_Witness ==
    \E r, q \in Reqs :
        /\ r # q
        /\ configBytes[r] # configBytes[q]
        /\ pc[r] = "restart"
        /\ resp[r].kind = "setConfigResult" /\ resp[r].status
        /\ pc[q] = "locking"
        /\ n >= 2

\* ----------------------------------------- C22: reply first, restart after
\* Request r of SetConfigHandler, or x of ServiceRestartHandler, dispatches
\* the restart command in this step.
ConfigDispatches(r) == calls'[r].restart > calls[r].restart
RestartDispatches(x) == rcalls'[x] > rcalls[x]

\* C22: in ServiceRestartHandler and in a successful SetConfigHandler the
\* response has been written before the restart command is dispatched, and
\* the handler returns with the dispatch: once the response is written the
\* dispatch step can always be taken, whatever restarts are pending or done,
\* and it ends the handler without touching the response.
C22_ReplyBeforeRestart ==
    /\ [][/\ \A r \in Reqs : ConfigDispatches(r) =>
                /\ IsResult(r) /\ resp[r].status
                /\ resp'[r] = resp[r]
                /\ pc'[r] = "done"
          /\ \A x \in RReqs : RestartDispatches(x) =>
                /\ rresp[x] = SuccessResponse
                /\ rresp'[x] = rresp[x]
                /\ rpc'[x] = "done"]_vars
    /\ [](/\ \A r \in Reqs : pc[r] = "restart" => ENABLED SendRestart(r)
          /\ \A x \in RReqs : rpc[x] = "restart" => ENABLED ServiceRestartSend(x))

\* Both handlers have answered and returned while a restart they commanded
\* has not happened yet on some peer and has happened on another.
C22_Witness ==
    /\ \E r \in Reqs : pc[r] = "done" /\ calls[r].restart = 1 /\ resp[r].status
    /\ \E x \in RReqs : rpc[x] = "done" /\ rcalls[x] = 1 /\ rresp[x] = SuccessResponse
    /\ \E p, q \in 1..n : p \in restartPending /\ q \notin restartPending /\ restarts[q] >= 1

\* ------------------------------ C26: only the local save decides the outcome
\* Request c passed validation and has not returned.
PastValidation(c) == cpc[c] \in {"updateCredsOnPeers", "Save"}

\* C26: once a set-credentials request has passed validation, peer update
\* failures neither end it nor write a response: every peer is called, the
\* credential in memory is set and the save is attempted; the response is
\* success exactly when the local save succeeded, whichever peers failed, and
\* a failed save answers an error and leaves every peer's credential as the
\* updates left it.
C26_OnlyLocalSaveDecides ==
    /\ [][\A c \in CReqs :
            /\ (cpc[c] = "updateCredsOnPeers" /\ cpc'[c] # cpc[c]) =>
                 /\ cpc'[c] = "Save"
                 /\ ccalls[c] = n
                 /\ serverCred' = credential(cuser[c], cpass[c])
            /\ PastValidation(c) /\ cpc'[c] # "done" => cresp'[c] = NoResp
            /\ (cpc[c] = "Save" /\ cpc'[c] # cpc[c]) =>
                 /\ cpc'[c] = "done"
                 /\ cresp'[c] = IF csaved'[c] = "ok" THEN SuccessResponse
                                ELSE ErrorResponse("ErrInternalError")
                 /\ csaved'[c] \in {"ok", "failed"}
                 /\ peerCred' = peerCred]_vars
    /\ [](\A c \in CReqs : cpc[c] = "done" /\ cresp[c] = SuccessResponse => csaved[c] = "ok")

\* One request succeeded although its update failed on every peer; another
\* answered an error after a failed save while a peer keeps the credential
\* that request sent it, which no other request delivered to that peer.
C26_Witness ==
    \E c, d \in CReqs :
        /\ c # d
        /\ cpc[c] = "done" /\ cfailed[c] = 1..n /\ cresp[c] = SuccessResponse
        /\ cpc[d] = "done" /\ csaved[d] = "failed"
        /\ cresp[d] = ErrorResponse("ErrInternalError")
        /\ \E p \in 1..n : /\ p \notin cfailed[d]
                           /\ peerCred[p] = credential(cuser[d], cpass[d])
                           /\ peerCred[p] # InitialCred

====
